---- MODULE Spec2Model ----
(***************************************************************************)
(* Active Tab Highlighter: the background service worker (Coordinator) of  *)
(* src/src/background.ts as a state machine.                               *)
(*                                                                         *)
(* JavaScript runs one handler at a time until it reaches an await; the    *)
(* model has one action per run-to-the-next-await segment.  A suspended    *)
(* async call is a task record in the bag tasks; its pc names the await it *)
(* is parked on.  chrome.storage.local is one FIFO channel to the browser, *)
(* so a get/set takes effect when it is issued; chrome.tabs.get and        *)
(* chrome.tabs.query answer with the browser's state when the task resumes.*)
(***************************************************************************)
EXTENDS Integers, Sequences, FiniteSets, Bags, TLC

\* ---- bounds of the model ----
NumTabs == 5        \* tab ids 1..NumTabs
NavTabs == 1        \* tabs 1..NavTabs may navigate to another URL
ClosingTabs == 2    \* tabs 1..ClosingTabs may be closed
MaxTasks == 2       \* suspended async calls in flight at once
MaxEvents == 3      \* events dispatched in one behaviour of Spec
RaceEvents == 2      \* events dispatched in the runs of overlapping handlers
MaxQueries == 1     \* position queries of the agent awaiting an answer
AgentTab == 2       \* the tab whose content script is modelled

\* ---- program constants ----
MAX_MRU_STACK_SIZE == 4
DEFAULT_BREADCRUMB_COUNT == 1

Tabs == 1..NumTabs
WINDOW_ID_NONE == 0 - 1

\* tab.url as the browser reports it: its scheme, or "nourl" for undefined
UrlKinds == {"https", "http", "chrome", "nourl"}
\* the URLs a tab moves between: odd tabs https <-> chrome, even tabs http <-> undefined
NavUrls(t) == IF t % 2 = 1 THEN {"https", "chrome"} ELSE {"http", "nourl"}

VARIABLES
    mruStack,           \* background.ts:20
    previousMruStack,   \* background.ts:21
    stored,             \* chrome.storage.local "mruStack"
    breadcrumbCount,    \* chrome.storage.sync "breadcrumbCount" (display mode)
    tabs,               \* browser: tab id -> "closed" or the tab's URL kind
    active,             \* browser: active tab of the focused window, 0 if none
    tasks,              \* bag of suspended async calls
    log,                \* set of messages sent since the last tab or lifecycle event
    response,           \* last sendResponse of the GET_MY_POSITION listener
    recent,             \* history: tabs by last accepted activation, newest first
    lastRestored,       \* history: stack adopted by the last restore, if no
                        \* tab event or stack change happened since it began
    event,              \* history: the last tab or lifecycle event dispatched,
                        \* the stack its handler found when it mutated it, and
                        \* the tab whose updateMRU returned early since, the
                        \* stack a restore adopted since, the number of
                        \* sendMessage calls since and those that rejected
    budget,             \* events the environment may still dispatch, -1: no limit
    agent,              \* the content script of tab AgentTab and its document
    storeDown,          \* chrome.storage calls reject
    areas,              \* chrome.storage: the value under each key of storage.ts
    returned,           \* history: the last call of a storage.ts function
    agents,             \* the content scripts of all tabs, tab id -> script and
                        \* document; <<>> where only the worker is specified
    windows             \* browser: the active tabs of the windows that do not
                        \* have the focus, in the order tabs.query lists them

vars == <<mruStack, previousMruStack, stored, breadcrumbCount, tabs, active,
          tasks, log, response, recent, lastRestored, event, budget, agent,
          storeDown, areas, returned, agents, windows>>

\* ---- array helpers, as the JavaScript computes them ----
Members(s) == {s[i] : i \in 1..Len(s)}
Includes(s, x) == \E i \in 1..Len(s) : s[i] = x
FilterOut(s, x) == SelectSeq(s, LAMBDA id : id # x)
Unshift(s, x) == <<x>> \o s
Slice(s, n) == SubSeq(s, 1, IF Len(s) < n THEN Len(s) ELSE n)
\* Array.prototype.indexOf: 0-based index of the first occurrence, or -1
IndexOf(s, x) ==
    IF Includes(s, x)
    THEN (CHOOSE i \in 1..Len(s) : s[i] = x /\ \A j \in 1..(i-1) : s[j] # x) - 1
    ELSE 0 - 1
\* previousMruStack.filter((id) => !mruStack.includes(id))
Difference(prev, cur) == SelectSeq(prev, LAMBDA id : ~Includes(cur, id))

\* isTrackableUrl taking every URL that is present
isTrackableUrlAnyScheme(url) ==
    IF url = "nourl" THEN FALSE
    ELSE TRUE

\* background.ts:124-130
isTrackableUrl(url) ==
    IF url = "nourl" THEN FALSE
    ELSE url = "http" \/ url = "https"

IsOpen(t) == tabs[t] # "closed"

\* ---- history ----
None == <<0>>
\* owed: the tabs an activation pushed off the stack that have since neither
\* been sent position 0 nor come back into the stack
\* promoted, removed: the tabs a handler promoted, or removed, while a
\* recovery run was waiting for the store or for a tab lookup, and that no
\* handler has pushed off or removed since
\* race: whether owed, promoted, removed and the tasks' own stacks are kept;
\* they are kept in the specification of overlapping handlers only
FirstEvent ==
    [kind |-> "init", tab |-> 0, before |-> None, again |-> FALSE, skipped |-> 0,
     adopted |-> None, sends |-> 0, failed |-> {}, owed |-> {}, promoted |-> {},
     removed |-> {}, race |-> FALSE]
Event(kind, tab) ==
    [FirstEvent EXCEPT !.kind = kind, !.tab = tab, !.owed = event.owed,
                       !.promoted = event.promoted, !.removed = event.removed,
                       !.race = event.race]
\* the stack a handler's mutation left, where that history is kept
Own(stack) == IF event.race THEN stack ELSE None

\* ---- tasks ----
\* own (history): the stack as the handler's own mutation left it, None for
\* a handler that has not mutated the stack
\* snap (history): the mruStack field of the message whose send the task
\* awaits, where that history is kept
NoTask == [pc |-> "idle", tab |-> 0, cont |-> "none", list |-> <<>>,
           acc |-> <<>>, idx |-> 0, quiet |-> FALSE, own |-> None, snap |-> None]
Task(pc, tab, cont) == [NoTask EXCEPT !.pc = pc, !.tab = tab, !.cont = cont]
InFlight == BagToSet(tasks)
\* background.ts:43, 54: a recovery run awaits storage.local.get or tabs.get
RecoveryReading == \E k \in InFlight : k.pc \in {"iget", "rget"}
NumInFlight == BagCardinality(tasks)
Idle == NumInFlight = 0
Put(b, q) ==
    IF Len(q) = 0 THEN b
    ELSE IF Len(q) = 1 THEN b (+) SetToBag({q[1]})
    ELSE b (+) SetToBag({q[1]}) (+) SetToBag({q[2]})
\* task k resumes and leaves the tasks of q suspended
Resume(k, q) ==
    /\ NumInFlight - 1 + Len(q) <= MaxTasks
    /\ tasks' = Put(tasks (-) SetToBag({k}), q)
\* a new event is dispatched to its listener, which suspends as task k
Dispatch(k) ==
    /\ NumInFlight < MaxTasks
    /\ tasks' = tasks (+) SetToBag({k})
\* the environment dispatches one more event
Spend ==
    /\ budget # 0
    /\ budget' = IF budget > 0 THEN budget - 1 ELSE budget
\* a tab event happened: every restore in flight has seen the tabs change
Disturbed(b) ==
    LET ks == BagToSet(b)
        moved(k) == [k EXCEPT !.quiet = FALSE]
    IN  [m \in {moved(k) : k \in ks} |->
            LET src == {k \in ks : moved(k) = m}
            IN  IF Cardinality(src) = 1
                THEN b[CHOOSE k \in src : TRUE]
                ELSE b[CHOOSE k \in src : k.quiet] + b[CHOOSE k \in src : ~k.quiet]]

\* ---- messages ----
UpdatePosition(to, position) == [to |-> to, position |-> position]
\* outcome of a code segment: the messages it sent, the tasks it left suspended
Outcome(msgs, spawn) == [msgs |-> msgs, spawn |-> spawn]
Then(a, b) == Outcome(a.msgs \o b.msgs, a.spawn \o b.spawn)
Sent(out) == {out.msgs[i] : i \in 1..Len(out.msgs)}
\* history: the broadcasts left suspended by out belong to the handler whose
\* mutation left the stack as own
Owned(out, own) ==
    Outcome(out.msgs,
            [i \in 1..Len(out.spawn) |->
                IF out.spawn[i].pc \in {"bsent", "csent"}
                THEN [out.spawn[i] EXCEPT !.own = own]
                ELSE out.spawn[i]])

\* background.ts:92-101: seedStackWithActiveTab up to its first await
SeedStart == Outcome(<<>>, <<Task("squery1", 0, "none")>>)

\* what runs when an awaited call returns to its caller
Continue(cont) ==
    IF cont = "seed" THEN SeedStart ELSE Outcome(<<>>, <<>>)

\* background.ts:141: chrome.tabs.sendMessage resolves when a content script
\* listens in the tab, which takes an open tab on an http or https page
Delivers(tabId) == IsOpen(tabId) /\ isTrackableUrl(tabs[tabId])

\* sendMessageToTab without the catch of lines 144-151: the rejection ends
\* the awaiting loop
sendMessageToTabThrows(tabId, out) ==
    IF Delivers(tabId) THEN out ELSE Outcome(<<>>, <<>>)

\* background.ts:136-152: the loop awaiting sendMessageToTab goes on with out
\* whether the message was delivered or not; the result is not looked at
sendMessageToTab(tabId, out) == out

\* history: out was sent; the send that k awaited was to k.tab with position
Sending(out) ==
    [event EXCEPT !.sends = @ + Len(out.msgs),
                  !.owed = @ \ {m.to : m \in {n \in Sent(out) : n.position = 0}}]
Awaited(k, position, out) ==
    [Sending(out) EXCEPT !.failed =
        IF Delivers(k.tab) THEN @ ELSE @ \cup {UpdatePosition(k.tab, position)}]

\* the message's mruStack field copied from the stack before the last mutation
SnapshotPrevious(stack) == IF event.race THEN previousMruStack ELSE None

\* background.ts:226, 241, 329: the mruStack field of a message, a copy of stack
Snapshot(stack) == IF event.race THEN stack ELSE None

\* background.ts:231-247: the fallen-off loop of broadcastPositions from
\* removedTabs[j] (1-based) to its next await; the message copies the live
\* mruStack
ClearFrom(removedTabs, j, cont) ==
    IF j <= Len(removedTabs)
    THEN Outcome(<<UpdatePosition(removedTabs[j], 0)>>,
                 <<[Task("csent", removedTabs[j], cont) EXCEPT
                        !.list = removedTabs, !.idx = j,
                        !.snap = Snapshot(mruStack)]>>)
    ELSE Continue(cont)

\* background.ts:213-229: the stack loop of broadcastPositions from index
\* (0-based) to its next await; it reads the live mruStack
BroadcastFrom(stack, removedTabs, index, cont) ==
    IF index < Len(stack)
    THEN Outcome(<<UpdatePosition(stack[index + 1], index + 1)>>,
                 <<[Task("bsent", stack[index + 1], cont) EXCEPT
                        !.list = removedTabs, !.idx = index,
                        !.snap = Snapshot(stack)]>>)
    ELSE ClearFrom(removedTabs, 1, cont)

\* background.ts:209-248
broadcastPositions(stack, removedTabs, cont) ==
    BroadcastFrom(stack, removedTabs, 0, cont)

\* Promote with line 182 (remove tabId if present) left out
PromoteNoFilter(stack, tabId) ==
    LET unshifted == Unshift(stack, tabId)
    IN  IF Len(unshifted) > MAX_MRU_STACK_SIZE
        THEN Slice(unshifted, MAX_MRU_STACK_SIZE)
        ELSE unshifted

\* Promote with lines 188-190 (keep only the last N) left out
PromoteNoSlice(stack, tabId) == Unshift(FilterOut(stack, tabId), tabId)

\* Promote with push in place of unshift at line 185
PromotePush(stack, tabId) ==
    LET pushed == Append(FilterOut(stack, tabId), tabId)
    IN  IF Len(pushed) > MAX_MRU_STACK_SIZE
        THEN Slice(pushed, MAX_MRU_STACK_SIZE)
        ELSE pushed

\* Promote keeping DEFAULT_BREADCRUMB_COUNT ids instead of MAX_MRU_STACK_SIZE
PromoteToDisplayMode(stack, tabId) ==
    LET unshifted == Unshift(FilterOut(stack, tabId), tabId)
    IN  IF Len(unshifted) > DEFAULT_BREADCRUMB_COUNT
        THEN Slice(unshifted, DEFAULT_BREADCRUMB_COUNT)
        ELSE unshifted

\* background.ts:178-190: the synchronous mutation of updateMRU
Promote(stack, tabId) ==
    LET unshifted == Unshift(FilterOut(stack, tabId), tabId)
    IN  IF Len(unshifted) > MAX_MRU_STACK_SIZE
        THEN Slice(unshifted, MAX_MRU_STACK_SIZE)
        ELSE unshifted

\* Evict dropping the front entry instead of the closed tab
EvictFront(stack, tabId) == IF stack = <<>> THEN stack ELSE Tail(stack)

\* background.ts:255
Evict(stack, tabId) == FilterOut(stack, tabId)

\* background.ts:26-33: chrome.storage.local.set({ mruStack }); a rejected
\* set leaves the store as it was
persistMRUStack(stack) == stored' = IF storeDown THEN stored ELSE stack

\* persistMRUStack without the catch of lines 30-32: the rejection of set
\* ends the awaiting handler
persistMRUStackThrows(out) == IF storeDown THEN Outcome(<<>>, <<>>) ELSE out

\* background.ts:27-32: the caller awaiting persistMRUStack goes on with out
\* whether set resolved or rejected, the catch only warns
persistMRUStackReturns(out) == out

\* ---- chrome.storage as storage.ts reads and writes it ----

\* a JavaScript value: its type and its content as a sequence (the number
\* itself, the character codes of a string, 0 or 1 for a boolean, the
\* elements of an array)
JsUndefined == [t |-> "undefined", v |-> <<>>]
JsNull == [t |-> "null", v |-> <<>>]
JsNumber(n) == [t |-> "number", v |-> <<n>>]
JsString(codes) == [t |-> "string", v |-> codes]
JsBoolean(b) == [t |-> "boolean", v |-> IF b THEN <<1>> ELSE <<0>>]
JsArray(elements) == [t |-> "array", v |-> elements]

storeVars == <<storeDown, areas, returned>>

\* constants.ts:6-10: the keys; nothing is stored after installation
FreshAreas ==
    [breadcrumbCount |-> JsUndefined, debugLoggingEnabled |-> JsUndefined,
     mruStack |-> JsUndefined]

\* history: the call, its argument, what it returned or that it threw, and
\* a bit that flips with every call
Called(call, arg, result, serial) ==
    [call |-> call, arg |-> arg, value |-> result.value, thrown |-> result.thrown,
     serial |-> serial]

\* the outcome of a call: a value returned, or an error thrown
Returns(value) == [value |-> value, thrown |-> FALSE]
Throws == [value |-> JsUndefined, thrown |-> TRUE]

\* chrome.storage.<area>.get(key): rejects, or resolves with result[key]
Read(key) == IF storeDown THEN Throws ELSE Returns(areas[key])

\* chrome.storage.<area>.set({ [key]: value }): rejects and stores nothing,
\* or stores the value
Set(key, value) ==
    [areas |-> IF storeDown THEN areas ELSE [areas EXCEPT ![key] = value],
     thrown |-> storeDown]

\* getBreadcrumbCount taking whatever is stored, as `??` would
getBreadcrumbCountUnchecked(read) ==
    IF read.thrown THEN Returns(JsNumber(DEFAULT_BREADCRUMB_COUNT))
    ELSE IF read.value = JsUndefined \/ read.value = JsNull
    THEN Returns(JsNumber(DEFAULT_BREADCRUMB_COUNT))
    ELSE Returns(read.value)

\* storage.ts:12-21, on the outcome of chrome.storage.sync.get
getBreadcrumbCount(read) ==
    IF read.thrown THEN Returns(JsNumber(DEFAULT_BREADCRUMB_COUNT))
    ELSE IF read.value = JsNumber(1) \/ read.value = JsNumber(4)
    THEN Returns(read.value)
    ELSE Returns(JsNumber(DEFAULT_BREADCRUMB_COUNT))

\* storage.ts:27-34: the catch logs and throws again
setBreadcrumbCount(count) == Set("breadcrumbCount", count)

\* storage.ts:40-48, on the outcome of chrome.storage.local.get
getDebugEnabled(read) ==
    IF read.thrown THEN Returns(JsBoolean(FALSE))
    ELSE IF read.value = JsUndefined \/ read.value = JsNull
    THEN Returns(JsBoolean(FALSE))
    ELSE Returns(read.value)

\* storage.ts:54-61
setDebugEnabled(enabled) == Set("debugLoggingEnabled", enabled)

\* getMruStack with `??` in place of the Array.isArray test
getMruStackUnchecked(read) ==
    IF read.thrown THEN Returns(JsArray(<<>>))
    ELSE IF read.value = JsUndefined \/ read.value = JsNull
    THEN Returns(JsArray(<<>>))
    ELSE Returns(read.value)

\* storage.ts:67-76, on the outcome of chrome.storage.local.get
getMruStack(read) ==
    IF read.thrown THEN Returns(JsArray(<<>>))
    ELSE IF read.value.t = "array" THEN Returns(read.value)
    ELSE Returns(JsArray(<<>>))

\* storage.ts:82-89
setMruStack(stack) == Set("mruStack", stack)

\* ---- the Tab Agent (content script) ----

\* a title is a string: the sequence of its UTF-16 code units

\* a table in which positions 3 and 4 have the same marker
INDICATORSRepeated ==
    [position \in 1..4 |->
        CASE position = 1 -> <<55357, 57318>>
          [] position = 2 -> <<55357, 57321>>
          [] position = 3 -> <<55357, 57319>>
          [] position = 4 -> <<55357, 57319>>]

\* types.ts:53-58: the large blue, green, orange and red squares
\* (U+1F7E6, U+1F7E9, U+1F7E7, U+1F7E5), each a surrogate pair
INDICATORS ==
    [position \in 1..4 |->
        CASE position = 1 -> <<55357, 57318>>
          [] position = 2 -> <<55357, 57321>>
          [] position = 3 -> <<55357, 57319>>
          [] position = 4 -> <<55357, 57317>>]
startsWith(title, prefix) ==
    Len(title) >= Len(prefix) /\ SubSeq(title, 1, Len(prefix)) = prefix
substring(title, n) == SubSeq(title, n + 1, Len(title))

\* the state of the content script (part_005:18-21), of its document and of
\* the extension runtime it talks to
AgentStart(pageTitle) ==
    [title |-> pageTitle,                   \* document.title
     originalTitle |-> pageTitle,
     currentPosition |-> 0,
     extensionContextInvalidated |-> FALSE,
     breadcrumbCount |-> DEFAULT_BREADCRUMB_COUNT,
     observing |-> FALSE,                   \* titleObserver is connected
     mutations |-> FALSE,                   \* mutation records await the observer
     runtime |-> TRUE,                      \* chrome.runtime is still valid
     pc |-> "loading",                      \* init awaits loadBreadcrumbCount
     verifying |-> 0,                       \* position queries awaiting an answer
     notified |-> DEFAULT_BREADCRUMB_COUNT, \* sync store value last notified
     \* history: the event handled last and the position held before it
     last |-> [kind |-> "start", arg |-> 0, position |-> 0],
     \* history: the title an update found when it took the agent from
     \* position 0 to a marker, kept while only updates to position 0 follow
     \* it, else None
     marked |-> None,
     \* history: the title the first of a run of updates found on a live agent
     \* without indicator, kept while only updates follow it, else None
     chain |-> None,
     \* history: the title the page gave its document last
     pageTitle |-> pageTitle]

\* history: the agent handles an event of this kind
Noted(a, kind, arg) ==
    [a EXCEPT !.last = [kind |-> kind, arg |-> arg, position |-> a.currentPosition],
              !.marked = None,
              !.chain = None]

\* document.title = title: the title element's child is replaced, which
\* queues a mutation record for a connected observer
SetTitle(a, title) ==
    [a EXCEPT !.title = title, !.mutations = a.mutations \/ a.observing]

\* part_005:91-99
removeIndicator(a) ==
    IF a.currentPosition > 0
    THEN [SetTitle(a, a.originalTitle) EXCEPT !.currentPosition = 0]
    ELSE a

\* part_005:68-75, 116-122: drop the first indicator the title starts with
StripIndicator(title) ==
    IF startsWith(title, INDICATORS[1]) THEN substring(title, Len(INDICATORS[1]))
    ELSE IF startsWith(title, INDICATORS[2]) THEN substring(title, Len(INDICATORS[2]))
    ELSE IF startsWith(title, INDICATORS[3]) THEN substring(title, Len(INDICATORS[3]))
    ELSE IF startsWith(title, INDICATORS[4]) THEN substring(title, Len(INDICATORS[4]))
    ELSE title

\* setPosition without the save of the title at part_005:57-58
setPositionKeepingOriginal(a, position) ==
    IF position < 1 \/ position > 4 THEN removeIndicator(a)
    ELSE IF a.breadcrumbCount = 1 /\ position # 1 THEN removeIndicator(a)
    ELSE
        LET indicator == INDICATORS[position]
            needsUpdate == \/ a.currentPosition # position
                           \/ ~startsWith(a.title, indicator)
        IN  IF needsUpdate
            THEN SetTitle([a EXCEPT !.currentPosition = position],
                          indicator \o a.originalTitle)
            ELSE a

\* setPosition taking the title it finds as the original when the position
\* changes, the old indicator left in it
setPositionStacking(a, position) ==
    IF position < 1 \/ position > 4 THEN removeIndicator(a)
    ELSE IF a.breadcrumbCount = 1 /\ position # 1 THEN removeIndicator(a)
    ELSE
        LET indicator == INDICATORS[position]
            needsUpdate == \/ a.currentPosition # position
                           \/ ~startsWith(a.title, indicator)
            original == IF a.currentPosition = position THEN StripIndicator(a.title)
                        ELSE a.title
        IN  IF needsUpdate
            THEN SetTitle([a EXCEPT !.originalTitle = original,
                                    !.currentPosition = position],
                          indicator \o original)
            ELSE a

\* part_005:34-86
setPosition(a, position) ==
    IF position < 1 \/ position > 4 THEN removeIndicator(a)
    ELSE IF a.breadcrumbCount = 1 /\ position # 1 THEN removeIndicator(a)
    ELSE
        LET indicator == INDICATORS[position]
            needsUpdate == \/ a.currentPosition # position
                           \/ ~startsWith(a.title, indicator)
            oldPosition == a.currentPosition
            original ==
                IF oldPosition = 0 THEN a.title
                ELSE IF a.currentPosition # position
                THEN IF startsWith(a.title, INDICATORS[oldPosition])
                     THEN substring(a.title, Len(INDICATORS[oldPosition]))
                     ELSE a.originalTitle
                ELSE StripIndicator(a.title)
        IN  IF needsUpdate
            THEN SetTitle([a EXCEPT !.originalTitle = original,
                                    !.currentPosition = position],
                          indicator \o original)
            ELSE a

\* the observer's callback without the assignment at part_005:123
titleObserverKeepingOriginal(a) ==
    IF a.currentPosition > 0 /\ ~startsWith(a.title, INDICATORS[a.currentPosition])
    THEN SetTitle(a, INDICATORS[a.currentPosition] \o StripIndicator(a.title))
    ELSE a

\* part_005:105-128: the observer's callback on the queued records
titleObserver(a) ==
    IF a.currentPosition > 0 /\ ~startsWith(a.title, INDICATORS[a.currentPosition])
    THEN LET title == StripIndicator(a.title)
         IN  SetTitle([a EXCEPT !.originalTitle = title],
                      INDICATORS[a.currentPosition] \o title)
    ELSE a

\* the onMessage listener without the guard at part_005:135-137
onMessageUnguarded(a, position) ==
    IF position >= 1 /\ position <= 4
    THEN IF a.breadcrumbCount = 1 /\ position = 1 THEN setPosition(a, position)
         ELSE IF a.breadcrumbCount = 4 THEN setPosition(a, position)
         ELSE removeIndicator(a)
    ELSE removeIndicator(a)

\* part_005:133-185: the onMessage listener on an UPDATE_POSITION
onMessage(a, position) ==
    IF a.extensionContextInvalidated THEN a
    ELSE IF position >= 1 /\ position <= 4
    THEN IF a.breadcrumbCount = 1 /\ position = 1 THEN setPosition(a, position)
         ELSE IF a.breadcrumbCount = 4 THEN setPosition(a, position)
         ELSE removeIndicator(a)
    ELSE removeIndicator(a)

\* part_005:219-235
handleContextInvalidation(a) ==
    IF a.extensionContextInvalidated THEN a
    ELSE LET stopped == [a EXCEPT !.extensionContextInvalidated = TRUE,
                                  !.observing = FALSE, !.mutations = FALSE]
         IN  IF stopped.currentPosition > 0
             THEN [stopped EXCEPT !.title = stopped.originalTitle,
                                  !.currentPosition = 0]
             ELSE stopped

\* part_005:190-214: the script state isExtensionContextValid leaves behind
\* (it returns true exactly when the flag is still clear afterwards)
isExtensionContextValid(a) ==
    IF a.extensionContextInvalidated THEN a
    ELSE IF ~a.runtime
    THEN handleContextInvalidation([a EXCEPT !.extensionContextInvalidated = TRUE])
    ELSE a

\* part_005:279-285: the catch block of verifyPosition
verifyFailed(a) ==
    handleContextInvalidation([a EXCEPT !.extensionContextInvalidated = TRUE])

\* part_005:240-257: verifyPosition up to the await of sendMessage
verifyPosition(a) ==
    IF a.extensionContextInvalidated THEN a
    ELSE LET checked == isExtensionContextValid(a)
         IN  IF checked.extensionContextInvalidated THEN checked
             ELSE [checked EXCEPT !.verifying = checked.verifying + 1]

\* part_005:259-278: verifyPosition on the response to GET_MY_POSITION
verifyAnswered(a, answer) ==
    LET correctPosition == answer.position
    IN  IF answer.success
        THEN IF a.currentPosition # correctPosition
             THEN IF correctPosition >= 1 /\ correctPosition <= 4
                  THEN setPosition(a, correctPosition)
                  ELSE removeIndicator(a)
             ELSE a
        ELSE a

\* the storage.onChanged listener without the re-evaluation at part_005:359-367
onChangedKeepingIndicator(a, newCount) == [a EXCEPT !.breadcrumbCount = newCount]

\* part_005:352-369: the storage.onChanged listener on a new breadcrumbCount
onChanged(a, newCount) ==
    LET counted == [a EXCEPT !.breadcrumbCount = newCount]
    IN  IF counted.currentPosition > 0
        THEN IF counted.breadcrumbCount = 1 /\ counted.currentPosition # 1
             THEN removeIndicator(counted)
             ELSE IF counted.currentPosition > counted.breadcrumbCount
             THEN removeIndicator(counted)
             ELSE counted
        ELSE counted

\* part_005:306-317: the window focus listener
onFocus(a) ==
    IF a.currentPosition > 0 /\ ~startsWith(a.title, INDICATORS[a.currentPosition])
    THEN SetTitle(a, INDICATORS[a.currentPosition] \o a.originalTitle)
    ELSE a

\* ---- every tab's content script receiving the worker's messages ----

\* a content script loaded and initialised under display mode count
AgentReady(count) ==
    [AgentStart(<<5>>) EXCEPT !.breadcrumbCount = count, !.notified = count,
                              !.observing = TRUE, !.pc = "ready"]

\* background.ts:141, part_005:133-185: chrome.tabs.sendMessage hands the
\* message to the listener of the tab's content script, if the tab has one;
\* the observer's callback follows as a microtask
Receive(ags, m) ==
    IF Delivers(m.to)
    THEN [ags EXCEPT ![m.to] =
             titleObserver([onMessage(@, m.position) EXCEPT !.mutations = FALSE])]
    ELSE ags

RECURSIVE DeliverAll(_, _)
DeliverAll(ags, msgs) ==
    IF msgs = <<>> THEN ags ELSE DeliverAll(Receive(ags, Head(msgs)), Tail(msgs))

\* the content scripts after the messages of out, delivered in the order sent
Delivered(out) == IF agents = <<>> THEN agents ELSE DeliverAll(agents, out.msgs)

\* the script has just been loaded (background.ts:20-21) and has run
\* initializeMRU up to storage.local.get (background.ts:391); saved is what
\* an earlier life of the worker left in the store
LoadedWith(saved, events, front, race) ==
    /\ mruStack = <<>>
    /\ previousMruStack = <<>>
    /\ stored = saved
    /\ breadcrumbCount = DEFAULT_BREADCRUMB_COUNT
    /\ tabs = [t \in Tabs |-> IF t % 2 = 1 THEN "https" ELSE "http"]
    /\ active = front
    /\ tasks = SetToBag({[Task("iget", 0, "none") EXCEPT !.list = saved, !.quiet = TRUE]})
    /\ log = {}
    /\ response = [to |-> 0, success |-> FALSE, position |-> 0]
    /\ recent = <<>>
    /\ lastRestored = None
    /\ event = [FirstEvent EXCEPT !.race = race]
    /\ budget = events
    /\ agent = AgentStart(<<5>>)
    /\ agents = <<>>
    /\ windows = <<>>
    /\ areas = FreshAreas
    /\ returned = Called("none", JsUndefined, Returns(JsUndefined), 0)

Loaded(saved, events, front) == LoadedWith(saved, events, front, FALSE)

\* stacks an earlier life persisted (each is reached under SpecSeq)
SavedStacks == {<<>>, <<3, 1, 2, 5>>}

\* first load after installation, any number of events
InitFresh == Loaded(<<>>, 0 - 1, 1) /\ storeDown = FALSE

\* a later load of the worker, MaxEvents events
Init ==
    /\ \E saved \in SavedStacks :
           Loaded(saved, MaxEvents, IF saved = <<>> THEN 1 ELSE saved[1])
    /\ storeDown = FALSE

\* a load of the worker after the browser was started again: any tab may be
\* the active one
InitBoot ==
    /\ \E saved \in SavedStacks : \E front \in Tabs : Loaded(saved, MaxEvents, front)
    /\ storeDown = FALSE

\* ---- updateMRU ----

\* background.ts:264-267: onActivated -> updateMRU(tabId), up to tabs.get
StartActivated(t) ==
    /\ Spend
    /\ IsOpen(t)
    /\ active' = t
    /\ Dispatch(Task("lookup", t, "none"))
    /\ log' = {}
    /\ event' = [Event("activated", t) EXCEPT
                     !.again = /\ event.kind = "activated"
                               /\ event.tab = t
                               /\ event.before # None]
    /\ UNCHANGED <<storeVars, windows, agents, agent, mruStack, previousMruStack, stored, breadcrumbCount, tabs,
                   response, recent, lastRestored>>

\* UpdateSkipped with a focus listener that stops when updateMRU returns early
UpdateSkippedAll(k) ==
    /\ k.pc = "lookup"
    /\ ~IsOpen(k.tab) \/ ~isTrackableUrl(tabs[k.tab])
    /\ Resume(k, <<>>)
    /\ log' = log
    /\ event' = [event EXCEPT !.skipped = k.tab]
    /\ UNCHANGED <<storeVars, windows, agents, agent, mruStack, previousMruStack, stored, breadcrumbCount, tabs,
                   active, response, recent, lastRestored, budget>>

\* background.ts:161-176: tabs.get threw, or the URL is not trackable
UpdateSkipped(k) ==
    /\ k.pc = "lookup"
    /\ ~IsOpen(k.tab) \/ ~isTrackableUrl(tabs[k.tab])
    /\ LET out == IF k.cont = "focus"
                  THEN broadcastPositions(mruStack, <<>>, "none")
                  ELSE Outcome(<<>>, <<>>)
       IN  /\ Resume(k, out.spawn)
           /\ log' = log \cup Sent(out)
           /\ agents' = Delivered(out)
           /\ event' = [Sending(out) EXCEPT !.skipped = k.tab]
    /\ UNCHANGED <<storeVars, windows, agent, mruStack, previousMruStack, stored, breadcrumbCount, tabs,
                   active, response, recent, lastRestored, budget>>

\* UpdateMutated with the broadcast started before the store write is awaited
UpdateMutatedBroadcasting(k) ==
    /\ k.pc = "lookup"
    /\ IsOpen(k.tab) /\ isTrackableUrl(tabs[k.tab])
    /\ previousMruStack' = mruStack
    /\ mruStack' = Promote(mruStack, k.tab)
    /\ persistMRUStack(mruStack')
    /\ Resume(k, <<[Task("persist", k.tab, k.cont) EXCEPT !.own = Own(mruStack')]>>)
    /\ recent' = Unshift(FilterOut(recent, k.tab), k.tab)
    /\ lastRestored' = IF mruStack' = mruStack THEN lastRestored ELSE None
    /\ log' = log \cup {UpdatePosition(mruStack'[i], i) : i \in 1..Len(mruStack')}
    /\ event' = [event EXCEPT !.before = mruStack,
                              !.sends = @ + Len(mruStack'),
                              !.owed =
                                  IF event.race
                                  THEN (@ \cup Members(mruStack)) \ Members(mruStack')
                                  ELSE @,
                              !.promoted =
                                  (IF event.race /\ RecoveryReading
                                   THEN @ \cup {k.tab}
                                   ELSE @) \ (Members(mruStack) \ Members(mruStack'))]
    /\ UNCHANGED <<storeVars, windows, agents, agent, breadcrumbCount, tabs, active, response, budget>>

\* background.ts:178-192: mutate, then issue the store write
UpdateMutated(k) ==
    /\ k.pc = "lookup"
    /\ IsOpen(k.tab) /\ isTrackableUrl(tabs[k.tab])
    /\ previousMruStack' = mruStack
    /\ mruStack' = Promote(mruStack, k.tab)
    /\ persistMRUStack(mruStack')
    /\ Resume(k, <<[Task("persist", k.tab, k.cont) EXCEPT !.own = Own(mruStack')]>>)
    /\ recent' = Unshift(FilterOut(recent, k.tab), k.tab)
    /\ lastRestored' = IF mruStack' = mruStack THEN lastRestored ELSE None
    /\ event' = [event EXCEPT !.before = mruStack,
                              !.owed =
                                  IF event.race
                                  THEN (@ \cup Members(mruStack)) \ Members(mruStack')
                                  ELSE @,
                              !.promoted =
                                  (IF event.race /\ RecoveryReading
                                   THEN @ \cup {k.tab}
                                   ELSE @) \ (Members(mruStack) \ Members(mruStack'))]
    /\ UNCHANGED <<storeVars, windows, agents, agent, breadcrumbCount, tabs, active, log, response, budget>>

\* background.ts:194-203, and the caller's code after `await updateMRU`
UpdatePersisted(k) ==
    /\ k.pc = "persist"
    /\ LET removedTabs == Difference(previousMruStack, mruStack)
           own == broadcastPositions(mruStack, removedTabs, "none")
           out == Owned(persistMRUStackReturns(
                            IF k.cont = "focus"
                            THEN Then(own, broadcastPositions(mruStack, <<>>, "none"))
                            ELSE own), k.own)
       IN  /\ Resume(k, out.spawn)
           /\ log' = log \cup Sent(out)
           /\ agents' = Delivered(out)
           /\ event' = Sending(out)
    /\ UNCHANGED <<storeVars, windows, agent, mruStack, previousMruStack, stored, breadcrumbCount, tabs,
                   active, response, recent, lastRestored, budget>>

\* BroadcastNext over the stack as the handler's own mutation left it
BroadcastNextOwn(k) ==
    /\ k.pc = "bsent"
    /\ LET stack == IF k.own = None THEN mruStack ELSE k.own
           out == Owned(sendMessageToTab(k.tab,
                            BroadcastFrom(stack, k.list, k.idx + 1, k.cont)), k.own)
       IN  /\ Resume(k, out.spawn)
           /\ log' = log \cup Sent(out)
           /\ agents' = Delivered(out)
           /\ event' = Awaited(k, k.idx + 1, out)
    /\ UNCHANGED <<storeVars, windows, agent, mruStack, previousMruStack, stored, breadcrumbCount, tabs,
                   active, response, recent, lastRestored, budget>>

\* background.ts:228-229: a sendMessageToTab of the stack loop returned
BroadcastNext(k) ==
    /\ k.pc = "bsent"
    /\ LET out == Owned(sendMessageToTab(k.tab,
                            BroadcastFrom(mruStack, k.list, k.idx + 1, k.cont)), k.own)
       IN  /\ Resume(k, out.spawn)
           /\ log' = log \cup Sent(out)
           /\ agents' = Delivered(out)
           /\ event' = Awaited(k, k.idx + 1, out)
    /\ UNCHANGED <<storeVars, windows, agent, mruStack, previousMruStack, stored, breadcrumbCount, tabs,
                   active, response, recent, lastRestored, budget>>

\* background.ts:244-245: a sendMessageToTab of the fallen-off loop returned
ClearNext(k) ==
    /\ k.pc = "csent"
    /\ LET out == Owned(sendMessageToTab(k.tab, ClearFrom(k.list, k.idx + 1, k.cont)),
                        k.own)
       IN  /\ Resume(k, out.spawn)
           /\ log' = log \cup Sent(out)
           /\ agents' = Delivered(out)
           /\ event' = Awaited(k, 0, out)
    /\ UNCHANGED <<storeVars, windows, agent, mruStack, previousMruStack, stored, breadcrumbCount, tabs,
                   active, response, recent, lastRestored, budget>>

\* ---- removeFromMRU ----

\* the browser closes tab t and queues onRemoved for the worker
CloseTab(t) ==
    /\ Spend
    /\ t <= ClosingTabs /\ IsOpen(t)
    /\ tabs' = [tabs EXCEPT ![t] = "closed"]
    /\ active' = IF active = t THEN 0 ELSE active
    /\ NumInFlight < MaxTasks
    /\ tasks' = Disturbed(tasks) (+) SetToBag({Task("removed", t, "none")})
    /\ log' = {}
    /\ recent' = FilterOut(recent, t)
    /\ lastRestored' = None
    /\ event' = Event("removed", t)
    /\ UNCHANGED <<storeVars, windows, agents, agent, mruStack, previousMruStack, stored, breadcrumbCount,
                   response>>

\* background.ts:269-273, 253-256: the listener runs up to the store write
RemoveMutated(k) ==
    /\ k.pc = "removed"
    /\ mruStack' = Evict(mruStack, k.tab)
    /\ persistMRUStack(mruStack')
    /\ Resume(k, <<[Task("rmpersist", k.tab, "none") EXCEPT !.own = Own(mruStack')]>>)
    /\ lastRestored' = None
    /\ event' = [event EXCEPT !.before = mruStack,
                              !.promoted = @ \ {k.tab},
                              !.removed = IF event.race /\ RecoveryReading
                                          THEN @ \cup {k.tab}
                                          ELSE @]
    /\ UNCHANGED <<storeVars, windows, agents, agent, previousMruStack, breadcrumbCount, tabs, active, log,
                   response, recent, budget>>

\* background.ts:257-260
RemovePersisted(k) ==
    /\ k.pc = "rmpersist"
    /\ LET out == Owned(persistMRUStackReturns(broadcastPositions(mruStack, <<>>, "none")),
                        k.own)
       IN  /\ Resume(k, out.spawn)
           /\ log' = log \cup Sent(out)
           /\ agents' = Delivered(out)
           /\ event' = Sending(out)
    /\ UNCHANGED <<storeVars, windows, agent, mruStack, previousMruStack, stored, breadcrumbCount, tabs,
                   active, response, recent, lastRestored, budget>>

\* ---- startup recovery: initializeMRU ----

RECURSIVE Ascending(_)
Ascending(S) ==
    IF S = {} THEN <<>>
    ELSE LET m == CHOOSE x \in S : \A y \in S : x <= y
         IN  <<m>> \o Ascending(S \ {m})

\* chrome.tabs.query({}): every open tab
AllTabs == Ascending({t \in Tabs : IsOpen(t)})

\* background.ts:313-316, 39-41: initializeMRU up to storage.local.get
InitTask == [Task("iget", 0, "none") EXCEPT !.list = stored, !.quiet = TRUE]

\* GlobalClearFrom that clears only the first tab of the query
GlobalClearFirst(allTabs, j) ==
    IF j <= 1 /\ j <= Len(allTabs)
    THEN Outcome(<<UpdatePosition(allTabs[j], 0)>>,
                 <<[Task("gsent", allTabs[j], "none") EXCEPT
                        !.list = allTabs, !.idx = j,
                        !.snap = Snapshot(<<>>)]>>)
    ELSE SeedStart

\* background.ts:324-335: the global clear loop from allTabs[j] to its next await
GlobalClearFrom(allTabs, j) ==
    IF j <= Len(allTabs)
    THEN Outcome(<<UpdatePosition(allTabs[j], 0)>>,
                 <<[Task("gsent", allTabs[j], "none") EXCEPT
                        !.list = allTabs, !.idx = j,
                        !.snap = Snapshot(<<>>)]>>)
    ELSE SeedStart

\* RestorePush without the isTrackableUrl test of line 55
RestorePushAnyUrl(restoredStack, tabId, url) ==
    IF url # "closed"
    THEN Append(restoredStack, tabId)
    ELSE restoredStack

\* background.ts:52-56: one pass of the restore loop on the looked-up tab
RestorePush(restoredStack, tabId, url) ==
    IF url # "closed" /\ isTrackableUrl(url)
    THEN Append(restoredStack, tabId)
    ELSE restoredStack

\* background.ts:68-71: the loop ends on the capacity break or the last entry
RestoreLoopEnds(restoredStack, savedStack, i) ==
    Len(restoredStack) >= MAX_MRU_STACK_SIZE \/ i >= Len(savedStack)

\* the service worker is stopped while idle and started again: the script
\* loads with empty globals and runs initializeMRU (background.ts:20-21, 391).
\* The tabs of gone were closed while no worker ran (the browser was shut
\* down with them open), so no onRemoved was ever handled for them.
Restart(gone) ==
    /\ Spend
    /\ NumInFlight = 0
    /\ \A t \in gone : t <= ClosingTabs /\ IsOpen(t)
    /\ tabs' = [t \in Tabs |-> IF t \in gone THEN "closed" ELSE tabs[t]]
    /\ active' = IF active \in gone THEN 0 ELSE active
    /\ mruStack' = <<>>
    /\ previousMruStack' = <<>>
    /\ tasks' = SetToBag({InitTask})
    /\ log' = {}
    /\ recent' = <<>>
    /\ lastRestored' = IF gone = {} THEN lastRestored ELSE None
    /\ event' = [FirstEvent EXCEPT !.race = event.race]
    /\ UNCHANGED <<storeVars, windows, agents, agent, stored, breadcrumbCount, response>>

\* background.ts:377-387: onStartup / onInstalled run initializeMRU again
StartInit ==
    /\ Spend
    /\ Dispatch(InitTask)
    /\ log' = {}
    /\ event' = Event("init", 0)
    /\ UNCHANGED <<storeVars, windows, agents, agent, mruStack, previousMruStack, stored, breadcrumbCount, tabs,
                   active, response, recent, lastRestored>>

\* background.ts:41-54: the saved stack arrived; empty returns false and
\* initializeMRU issues tabs.query({}), else the first tabs.get is issued
InitGot(k) ==
    /\ k.pc = "iget"
    /\ IF Len(k.list) = 0
       THEN Resume(k, <<Task("iquery", 0, "none")>>)
       ELSE Resume(k, <<[k EXCEPT !.pc = "rget", !.idx = 1, !.acc = <<>>]>>)
    /\ UNCHANGED <<storeVars, windows, agents, agent, mruStack, previousMruStack, stored, breadcrumbCount, tabs,
                   active, log, response, recent, lastRestored, event, budget>>

\* background.ts:52-71: a tabs.get of the restore loop answered, loop goes on
RestoreLookup(k) ==
    /\ k.pc = "rget"
    /\ LET restoredStack == RestorePush(k.acc, k.list[k.idx], tabs[k.list[k.idx]])
       IN  /\ ~RestoreLoopEnds(restoredStack, k.list, k.idx)
           /\ Resume(k, <<[k EXCEPT !.acc = restoredStack, !.idx = k.idx + 1]>>)
    /\ UNCHANGED <<storeVars, windows, agents, agent, mruStack, previousMruStack, stored, breadcrumbCount, tabs,
                   active, log, response, recent, lastRestored, event, budget>>

\* background.ts:73-76: nothing valid survived; initializeMRU issues tabs.query({})
RestoreEmpty(k) ==
    /\ k.pc = "rget"
    /\ LET restoredStack == RestorePush(k.acc, k.list[k.idx], tabs[k.list[k.idx]])
       IN  /\ RestoreLoopEnds(restoredStack, k.list, k.idx)
           /\ Len(restoredStack) = 0
    /\ Resume(k, <<Task("iquery", 0, "none")>>)
    /\ UNCHANGED <<storeVars, windows, agents, agent, mruStack, previousMruStack, stored, breadcrumbCount, tabs,
                   active, log, response, recent, lastRestored, event, budget>>

\* background.ts:78-80: adopt the restored stack and issue the store write
RestoreAdopted(k) ==
    /\ k.pc = "rget"
    /\ LET restoredStack == RestorePush(k.acc, k.list[k.idx], tabs[k.list[k.idx]])
       IN  /\ RestoreLoopEnds(restoredStack, k.list, k.idx)
           /\ Len(restoredStack) # 0
           /\ mruStack' = restoredStack
           /\ persistMRUStack(mruStack')
           /\ Resume(k, <<[k EXCEPT !.pc = "rpersist", !.acc = restoredStack,
                                    !.own = Own(restoredStack)]>>)
           /\ recent' = restoredStack
           /\ lastRestored' = IF k.quiet THEN restoredStack ELSE None
           /\ event' = [event EXCEPT !.adopted = restoredStack,
                                     !.owed = @ \ Members(restoredStack)]
    /\ UNCHANGED <<storeVars, windows, agents, agent, previousMruStack, breadcrumbCount, tabs, active, log,
                   response, budget>>

\* background.ts:81, 336-346: restored; broadcast, and seed when it returns
RestorePersisted(k) ==
    /\ k.pc = "rpersist"
    /\ LET out == Owned(persistMRUStackReturns(broadcastPositions(mruStack, <<>>, "seed")),
                        k.own)
       IN  /\ Resume(k, out.spawn)
           /\ log' = log \cup Sent(out)
           /\ agents' = Delivered(out)
           /\ event' = Sending(out)
    /\ UNCHANGED <<storeVars, windows, agent, mruStack, previousMruStack, stored, breadcrumbCount, tabs,
                   active, response, recent, lastRestored, budget>>

\* background.ts:324-335: tabs.query({}) answered; the global clear starts
InitQueried(k) ==
    /\ k.pc = "iquery"
    /\ LET out == GlobalClearFrom(AllTabs, 1)
       IN  /\ Resume(k, out.spawn)
           /\ log' = log \cup Sent(out)
           /\ agents' = Delivered(out)
           /\ event' = Sending(out)
    /\ UNCHANGED <<storeVars, windows, agent, mruStack, previousMruStack, stored, breadcrumbCount, tabs,
                   active, response, recent, lastRestored, budget>>

\* background.ts:333-334: a sendMessageToTab of the global clear returned
GlobalClearNext(k) ==
    /\ k.pc = "gsent"
    /\ LET out == sendMessageToTab(k.tab, GlobalClearFrom(k.list, k.idx + 1))
       IN  /\ Resume(k, out.spawn)
           /\ log' = log \cup Sent(out)
           /\ agents' = Delivered(out)
           /\ event' = Awaited(k, 0, out)
    /\ UNCHANGED <<storeVars, windows, agent, mruStack, previousMruStack, stored, breadcrumbCount, tabs,
                   active, response, recent, lastRestored, budget>>

\* findFirstTrackable without the URL test: the first tab of the query
findFirstListed(activeTabs) ==
    IF activeTabs = <<>> THEN 0 ELSE activeTabs[1]

\* background.ts:93-94: findFirstTrackable, 0 for undefined
findFirstTrackable(activeTabs) ==
    LET found == {i \in 1..Len(activeTabs) : isTrackableUrl(tabs[activeTabs[i]])}
    IN  IF found = {} THEN 0
        ELSE activeTabs[CHOOSE i \in found : \A j \in found : i <= j]

\* tabs.query lists open tabs only
Listed(ts) == SelectSeq(ts, IsOpen)

\* background.ts:96-99: tabs.query({active: true, lastFocusedWindow: true})
ActiveInLastFocused == Listed(IF active # 0 THEN <<active>> ELSE <<>>)

\* background.ts:107: tabs.query({active: true})
ActiveInAll == ActiveInLastFocused \o Listed(windows)

\* background.ts:101: the candidate after the first query
Candidate == findFirstTrackable(ActiveInLastFocused)

\* background.ts:108: the candidate after the second query
CandidateAll == findFirstTrackable(ActiveInAll)

\* background.ts:96-112: query of the last-focused window answered
SeedQueried(k) ==
    /\ k.pc = "squery1"
    /\ IF Candidate # 0
       THEN Resume(k, <<Task("lookup", Candidate, "none")>>)
       ELSE Resume(k, <<Task("squery2", 0, "none")>>)
    /\ UNCHANGED <<storeVars, windows, agents, agent, mruStack, previousMruStack, stored, breadcrumbCount, tabs,
                   active, log, response, recent, lastRestored, event, budget>>

\* background.ts:107-117: query of all windows answered
SeedQueriedAll(k) ==
    /\ k.pc = "squery2"
    /\ IF CandidateAll # 0
       THEN Resume(k, <<Task("lookup", CandidateAll, "none")>>)
       ELSE Resume(k, <<>>)
    /\ UNCHANGED <<storeVars, windows, agents, agent, mruStack, previousMruStack, stored, breadcrumbCount, tabs,
                   active, log, response, recent, lastRestored, event, budget>>

\* ---- onUpdated, onFocusChanged ----

\* onUpdated running updateMRU for every tab whose status is complete
onUpdatedAnyTab(tabActive, status) == status = "complete"

\* background.ts:278: the test of the onUpdated listener
onUpdated(tabActive, status) == tabActive /\ status = "complete"

\* tab.active of the tab an onUpdated event reports: the tab is the active
\* one of its window
IsActive(t) == active = t \/ Includes(windows, t)

\* tab t finishes loading another URL; background.ts:276-282 runs updateMRU
\* for it when it is the active tab of its window
Navigate(t, url) ==
    /\ Spend
    /\ t <= NavTabs /\ IsOpen(t) /\ url # tabs[t]
    /\ tabs' = [tabs EXCEPT ![t] = url]
    /\ IF onUpdated(IsActive(t), "complete")
       THEN /\ NumInFlight < MaxTasks
            /\ tasks' = Disturbed(tasks) (+) SetToBag({Task("lookup", t, "none")})
            /\ log' = {}
            /\ event' = Event("updated", t)
       ELSE /\ tasks' = Disturbed(tasks)
            /\ log' = log
            /\ event' = event
    /\ lastRestored' = None
    /\ UNCHANGED <<storeVars, windows, agents, agent, mruStack, previousMruStack, stored, breadcrumbCount, active,
                   response, recent>>

\* tab t reports status "loading" (a reload or a navigation begins);
\* background.ts:276-282
TabLoading(t) ==
    /\ Spend
    /\ IsOpen(t)
    /\ IF onUpdated(IsActive(t), "loading")
       THEN Dispatch(Task("lookup", t, "none")) /\ log' = {}
       ELSE tasks' = tasks /\ log' = log
    /\ event' = Event("loading", t)
    /\ UNCHANGED <<storeVars, windows, agents, agent, mruStack, previousMruStack, stored, breadcrumbCount,
                   tabs, active, response, recent, lastRestored>>

\* background.ts:286: the test of the onFocusChanged listener
onFocusChanged(windowId) == windowId # WINDOW_ID_NONE

\* background.ts:285-292: onFocusChanged up to tabs.query (the history notes
\* the window id in place of a tab id)
FocusChanged(windowId) ==
    IF onFocusChanged(windowId)
    THEN /\ Spend
         /\ Dispatch(Task("fquery", 0, "none"))
         /\ log' = {}
         /\ event' = Event("focus", windowId)
         /\ UNCHANGED <<storeVars, windows, agents, agent, mruStack, previousMruStack, stored, breadcrumbCount,
                        tabs, active, response, recent, lastRestored>>
    ELSE UNCHANGED vars

\* the user moves to a second window, whose active tab is t: onFocusChanged
\* fires for it and onActivated does not; background.ts:285-292
FocusOther(t) ==
    /\ Spend
    /\ IsOpen(t) /\ t # active
    /\ active' = t
    /\ Dispatch(Task("fquery", 0, "none"))
    /\ log' = {}
    /\ event' = Event("focus", 2)
    /\ UNCHANGED <<storeVars, windows, agents, agent, mruStack, previousMruStack, stored, breadcrumbCount,
                   tabs, response, recent, lastRestored>>

\* background.ts:292-303: the window's active tab arrived
FocusQueried(k) ==
    /\ k.pc = "fquery"
    /\ LET out == IF active # 0
                  THEN Outcome(<<>>, <<Task("lookup", active, "focus")>>)
                  ELSE broadcastPositions(mruStack, <<>>, "none")
       IN  /\ Resume(k, out.spawn)
           /\ log' = log \cup Sent(out)
           /\ agents' = Delivered(out)
           /\ event' = Sending(out)
    /\ UNCHANGED <<storeVars, windows, agent, mruStack, previousMruStack, stored, breadcrumbCount, tabs,
                   active, response, recent, lastRestored, budget>>

\* ---- settings, position query ----

\* SetBreadcrumbCount with a worker that cuts its stack to the new count
SetBreadcrumbCountCutting(count) ==
    /\ Spend
    /\ count # breadcrumbCount
    /\ breadcrumbCount' = count
    /\ mruStack' = Slice(mruStack, count)
    /\ persistMRUStack(mruStack')
    /\ log' = {UpdatePosition(mruStack[i], 0) : i \in (count + 1)..Len(mruStack)}
    /\ event' = [Event("mode", 0) EXCEPT !.before = mruStack]
    /\ UNCHANGED <<storeVars, windows, agents, agent, previousMruStack, tabs, active, tasks, response, recent,
                   lastRestored>>

\* popup.ts:125-138: the popup stores the count and notifies the worker,
\* whose onMessage listener (background.ts:352-375) handles no such type
SetBreadcrumbCount(count) ==
    /\ Spend
    /\ count # breadcrumbCount
    /\ breadcrumbCount' = count
    /\ log' = {}
    /\ event' = [Event("mode", 0) EXCEPT !.before = mruStack]
    /\ UNCHANGED <<storeVars, windows, agents, agent, mruStack, previousMruStack, stored, tabs, active, tasks,
                   response, recent, lastRestored>>

\* PositionResponse answering the 0-based index of line 355
PositionResponseZeroBased(stack, tabId) ==
    LET position == IndexOf(stack, tabId)
    IN  IF position >= 0 /\ position < MAX_MRU_STACK_SIZE
        THEN [to |-> tabId, success |-> TRUE, position |-> position]
        ELSE [to |-> tabId, success |-> TRUE, position |-> 0]

\* background.ts:352-375: sendResponse of the GET_MY_POSITION branch
PositionResponse(stack, tabId) ==
    LET position == IndexOf(stack, tabId)
    IN  IF position >= 0 /\ position < MAX_MRU_STACK_SIZE
        THEN [to |-> tabId, success |-> TRUE, position |-> position + 1]
        ELSE [to |-> tabId, success |-> TRUE, position |-> 0]

GetMyPosition(t) ==
    /\ Spend
    /\ IsOpen(t)
    /\ response' = PositionResponse(mruStack, t)
    /\ UNCHANGED <<storeVars, windows, agents, agent, mruStack, previousMruStack, stored, breadcrumbCount, tabs,
                   active, tasks, log, recent, lastRestored, event>>

\* ---- the Tab Agent's handlers ----

\* the worker, the tabs and the sync store's display mode
workerTabVars == <<mruStack, previousMruStack, stored, breadcrumbCount, tabs,
                   active, tasks, log, response, recent, lastRestored, event,
                   budget>>

coordinatorVars == <<mruStack, previousMruStack, stored, breadcrumbCount, tabs,
                     active, tasks, log, response, recent, lastRestored, event,
                     budget, storeVars, agents, windows>>

\* a handler starts only after the observer has consumed the queued records
\* (its callback runs as a microtask)
Settled == ~agent.mutations

\* part_005:322-347: loadBreadcrumbCount returned; init cleans up and
\* connects the observer
AgentLoaded ==
    /\ Settled
    /\ agent.pc = "loading"
    /\ LET loaded == [Noted(agent, "loaded", 0) EXCEPT
                         !.breadcrumbCount = getBreadcrumbCount(Returns(JsNumber(breadcrumbCount))).value.v[1]]
       IN  agent' = [removeIndicator(loaded) EXCEPT !.observing = TRUE,
                                                    !.pc = "ready"]
    /\ UNCHANGED coordinatorVars

\* part_005:133-185: an UPDATE_POSITION arrives
AgentUpdate(position) ==
    /\ Settled
    /\ LET updated == onMessage(Noted(agent, "update", position), position)
           chain == IF agent.extensionContextInvalidated THEN None
                    ELSE IF agent.currentPosition = 0 /\ updated.currentPosition > 0
                    THEN agent.title
                    ELSE agent.chain
       IN  agent' = IF agent.currentPosition = 0 /\ updated.currentPosition > 0
                    THEN [updated EXCEPT !.marked = agent.title, !.chain = chain]
                    ELSE IF position = 0
                    THEN [updated EXCEPT !.marked = agent.marked, !.chain = chain]
                    ELSE [updated EXCEPT !.chain = chain]
    /\ UNCHANGED coordinatorVars

\* part_005:291-300, 240-257: the tab becomes visible (the history notes
\* whether the dead flag was already set)
AgentVisible ==
    /\ Settled
    /\ agent.verifying < MaxQueries
    /\ agent' = verifyPosition(Noted(agent, "visible",
                                      IF agent.extensionContextInvalidated THEN 1 ELSE 0))
    /\ UNCHANGED coordinatorVars

\* background.ts:352-375, part_005:259-278: the worker answers the query
AgentAnswered ==
    /\ Settled
    /\ agent.verifying > 0 /\ agent.runtime
    /\ LET answer == PositionResponse(mruStack, AgentTab)
           asked == [Noted(agent, "answer", answer.position) EXCEPT
                        !.verifying = agent.verifying - 1]
       IN  agent' = verifyAnswered(asked, answer)
    /\ UNCHANGED coordinatorVars

\* part_005:254-257, 279-285: sendMessage rejects, the runtime is gone
AgentQueryFailed ==
    /\ Settled
    /\ agent.verifying > 0 /\ ~agent.runtime
    /\ agent' = verifyFailed([Noted(agent, "failed", 0) EXCEPT
                                 !.verifying = agent.verifying - 1])
    /\ UNCHANGED coordinatorVars

\* the extension is reloaded under the running content script
ExtensionReloaded ==
    /\ Settled
    /\ agent.runtime
    /\ agent' = [agent EXCEPT !.runtime = FALSE]
    /\ UNCHANGED coordinatorVars

\* the page sets document.title
PageSetsTitle(title) ==
    /\ Settled
    /\ agent' = SetTitle([Noted(agent, "page", 0) EXCEPT !.pageTitle = title], title)
    /\ UNCHANGED coordinatorVars

\* part_005:105-128: the observer's callback runs on the queued records
Observe ==
    /\ agent.mutations
    /\ agent' = titleObserver([agent EXCEPT !.mutations = FALSE])
    /\ UNCHANGED coordinatorVars

\* part_005:306-317: the window regains focus
WindowFocused ==
    /\ Settled
    /\ agent.last.kind # "focus"
    /\ agent' = onFocus(Noted(agent, "focus", 0))
    /\ UNCHANGED coordinatorVars

\* part_005:352-369: the change of the sync store reaches the content script
AgentStorageChanged ==
    /\ Settled
    /\ agent.notified # breadcrumbCount
    /\ agent' = onChanged([Noted(agent, "mode", breadcrumbCount) EXCEPT
                              !.notified = breadcrumbCount],
                          breadcrumbCount)
    /\ UNCHANGED coordinatorVars

\* ---- specifications ----

Handle ==
    \/ \E k \in InFlight : UpdateSkipped(k)
    \/ \E k \in InFlight : UpdateMutated(k)
    \/ \E k \in InFlight : UpdatePersisted(k)
    \/ \E k \in InFlight : BroadcastNext(k)
    \/ \E k \in InFlight : ClearNext(k)
    \/ \E k \in InFlight : RemoveMutated(k)
    \/ \E k \in InFlight : RemovePersisted(k)
    \/ \E k \in InFlight : InitGot(k)
    \/ \E k \in InFlight : RestoreLookup(k)
    \/ \E k \in InFlight : RestoreEmpty(k)
    \/ \E k \in InFlight : RestoreAdopted(k)
    \/ \E k \in InFlight : RestorePersisted(k)
    \/ \E k \in InFlight : InitQueried(k)
    \/ \E k \in InFlight : GlobalClearNext(k)
    \/ \E k \in InFlight : SeedQueried(k)
    \/ \E k \in InFlight : SeedQueriedAll(k)
    \/ \E k \in InFlight : FocusQueried(k)

TabEvent ==
    \/ \E t \in Tabs : StartActivated(t)
    \/ \E t \in Tabs : CloseTab(t)
    \/ \E t \in Tabs : \E url \in NavUrls(t) : Navigate(t, url)
    \/ \E w \in {WINDOW_ID_NONE, 1} : FocusChanged(w)

Lifecycle ==
    \/ StartInit
    \/ \E gone \in SUBSET (1..ClosingTabs) : Restart(gone)

Settings == Idle /\ \E c \in {1, 4} : SetBreadcrumbCount(c)

Query == \E t \in Tabs : GetMyPosition(t)

\* handlers interleave at their awaits
Next == Handle \/ TabEvent \/ Lifecycle

Spec == Init /\ [][Next]_vars

\* a later load of the worker and RaceEvents events, whose handlers overlap
\* with the recovery run and with each other
InitRace ==
    /\ \E saved \in SavedStacks :
           LoadedWith(saved, RaceEvents, IF saved = <<>> THEN 1 ELSE saved[1], TRUE)
    /\ storeDown = FALSE

SpecRace == InitRace /\ [][Next]_vars

\* handlers run one after another: an event that starts a handler is
\* dispatched only when no earlier handler is still suspended
SeqTabEvent ==
    \/ Idle /\ \E t \in Tabs : StartActivated(t)
    \/ Idle /\ \E t \in Tabs : CloseTab(t)
    \/ \E t \in Tabs : (Idle \/ t # active) /\ \E url \in NavUrls(t) : Navigate(t, url)
    \/ Idle /\ \E w \in {WINDOW_ID_NONE, 1} : FocusChanged(w)

SeqLifecycle ==
    \/ Idle /\ StartInit
    \/ \E gone \in SUBSET (1..ClosingTabs) : Restart(gone)

NextSeq == Handle \/ SeqTabEvent \/ SeqLifecycle

SpecSeq == InitFresh /\ [][NextSeq]_vars

\* the same load and events, each handled after the one before has finished
SpecRaceSeq == InitRace /\ [][NextSeq]_vars

\* first load after installation under either display mode; every tab with a
\* trackable URL has a content script, which stays loaded; the last tab shows
\* a web page or a browser page
InitSystem ==
    \E count \in {1, 4}, last \in {"https", "chrome"} :
        /\ mruStack = <<>>
        /\ previousMruStack = <<>>
        /\ stored = <<>>
        /\ breadcrumbCount = count
        /\ tabs = [t \in Tabs |-> IF t = NumTabs THEN last
                                  ELSE IF t % 2 = 1 THEN "https" ELSE "http"]
        /\ active = 1
        /\ tasks = SetToBag({[Task("iget", 0, "none") EXCEPT !.quiet = TRUE]})
        /\ log = {}
        /\ response = [to |-> 0, success |-> FALSE, position |-> 0]
        /\ recent = <<>>
        /\ lastRestored = None
        /\ event = FirstEvent
        /\ budget = 0 - 1
        /\ agent = AgentStart(<<5>>)
        /\ storeDown = FALSE
        /\ areas = FreshAreas
        /\ returned = Called("none", JsUndefined, Returns(JsUndefined), 0)
        /\ agents = [t \in Tabs |-> AgentReady(count)]
        /\ windows = <<>>

\* handlers run one after another, the display mode stays, no page is
\* loaded anew, and the focus moves between two windows
NextSystem ==
    \/ Handle
    \/ Idle /\ \E t \in Tabs : StartActivated(t)
    \/ Idle /\ \E t \in Tabs : CloseTab(t)
    \/ Idle /\ \E w \in {WINDOW_ID_NONE, 1} : FocusChanged(w)
    \/ Idle /\ \E t \in Tabs : FocusOther(t)
    \/ SeqLifecycle

SpecSystem == InitSystem /\ [][NextSystem]_vars

\* active tabs of the windows without the focus
OtherWindows == {<<>>, <<2>>, <<2, 4>>, <<4, 2>>, <<1, 4>>}

\* a load of the worker after the browser was started again with several
\* windows: the tabs of pages show a browser page (tab 1) or report no URL
\* (tab 2), tab front is active in the window focused last
InitWindows ==
    \E saved \in SavedStacks, front \in {1, 3}, others \in OtherWindows,
       pages \in SUBSET {1, 2} :
        /\ mruStack = <<>>
        /\ previousMruStack = <<>>
        /\ stored = saved
        /\ breadcrumbCount = DEFAULT_BREADCRUMB_COUNT
        /\ tabs = [t \in Tabs |-> IF t \in pages
                                  THEN (IF t % 2 = 1 THEN "chrome" ELSE "nourl")
                                  ELSE (IF t % 2 = 1 THEN "https" ELSE "http")]
        /\ active = front
        /\ tasks = SetToBag({[Task("iget", 0, "none") EXCEPT !.list = saved, !.quiet = TRUE]})
        /\ log = {}
        /\ response = [to |-> 0, success |-> FALSE, position |-> 0]
        /\ recent = <<>>
        /\ lastRestored = None
        /\ event = FirstEvent
        /\ budget = MaxEvents
        /\ agent = AgentStart(<<5>>)
        /\ storeDown = FALSE
        /\ areas = FreshAreas
        /\ returned = Called("none", JsUndefined, Returns(JsUndefined), 0)
        /\ agents = <<>>
        /\ windows = others
        /\ ~Includes(others, front)

\* every event is dispatched after the handler before it has finished
NextWindows == Handle \/ (Idle /\ TabEvent) \/ SeqLifecycle

SpecWindows == InitWindows /\ [][NextWindows]_vars

\* part_005:352-369: the change of the sync store reaches the content script
\* of tab t; the observer's callback follows as a microtask
AgentsStorageChanged(t) ==
    /\ agents # <<>>
    /\ Delivers(t)
    /\ agents[t].notified # breadcrumbCount
    /\ agents' = [agents EXCEPT ![t] =
           titleObserver([onChanged([@ EXCEPT !.notified = breadcrumbCount],
                                    breadcrumbCount) EXCEPT !.mutations = FALSE])]
    /\ UNCHANGED <<workerTabVars, agent, storeVars, windows>>

\* what the worker finds when it is loaded: the stack an earlier life
\* persisted, the active tab and the page of the last tab (no stack, a full
\* stack, or the stack of the last tab alone, which now shows a browser page)
ModeLoads ==
    {[saved |-> <<>>, front |-> 3, last |-> "https"],
     [saved |-> <<3, 1, 2, 5>>, front |-> 3, last |-> "https"],
     [saved |-> <<5>>, front |-> 5, last |-> "chrome"]}

\* a load of the worker after the browser was started again, under either
\* display mode; every tab with a trackable URL has a fresh content script
InitMode ==
    \E count \in {1, 4}, load \in ModeLoads :
      LET saved == load.saved
          front == load.front
          last == load.last
      IN
        /\ mruStack = <<>>
        /\ previousMruStack = <<>>
        /\ stored = saved
        /\ breadcrumbCount = count
        /\ tabs = [t \in Tabs |-> IF t = NumTabs THEN last
                                  ELSE IF t % 2 = 1 THEN "https" ELSE "http"]
        /\ active = front
        /\ tasks = SetToBag({[Task("iget", 0, "none") EXCEPT !.list = saved, !.quiet = TRUE]})
        /\ log = {}
        /\ response = [to |-> 0, success |-> FALSE, position |-> 0]
        /\ recent = <<>>
        /\ lastRestored = None
        /\ event = FirstEvent
        /\ budget = MaxEvents
        /\ agent = AgentStart(<<5>>)
        /\ storeDown = FALSE
        /\ areas = FreshAreas
        /\ returned = Called("none", JsUndefined, Returns(JsUndefined), 0)
        /\ agents = [t \in Tabs |-> AgentReady(count)]
        /\ windows = <<>>

\* handlers run one after another, no page is loaded anew, the user changes
\* the display mode in the popup and the content scripts are notified
NextMode ==
    \/ NextSystem
    \/ Settings
    \/ \E t \in Tabs : AgentsStorageChanged(t)

\* the same, and the tabs ask the worker for their positions
NextModeQuery == NextMode \/ (Idle /\ Query)

SpecModeQuery == InitMode /\ [][NextModeQuery]_vars

SpecMode == InitMode /\ [][NextMode]_vars

\* handlers run one after another, and the popup and the tabs send their
\* messages to the worker's onMessage listener
NextMsg == Handle \/ SeqTabEvent \/ SeqLifecycle \/ Settings \/ Query

SpecMsg == Init /\ [][NextMsg]_vars

\* titles the page gives its document after the one it was loaded with; the
\* last one starts with an indicator
PageTitles == {<<5>>, <<6>>, INDICATORS[2] \o <<5>>}

\* stacks the worker may hold while the agent runs (each is reached under
\* SpecSeq)
AgentStacks == {<<>>, <<2, 1>>, <<3, 1, 2, 5>>}

\* the content script has just been injected into tab AgentTab; the worker
\* is idle
InitAgent ==
    \E stack \in AgentStacks : \E count \in {1, 4} :
        /\ mruStack = stack
        /\ previousMruStack = <<>>
        /\ stored = stack
        /\ breadcrumbCount = count
        /\ tabs = [t \in Tabs |-> IF t % 2 = 1 THEN "https" ELSE "http"]
        /\ active = IF stack = <<>> THEN 0 ELSE stack[1]
        /\ tasks = EmptyBag
        /\ log = {}
        /\ response = [to |-> 0, success |-> FALSE, position |-> 0]
        /\ recent = stack
        /\ lastRestored = None
        /\ event = FirstEvent
        /\ budget = 0 - 1
        /\ agent = [AgentStart(<<5>>) EXCEPT !.notified = count]
        /\ agents = <<>>
        /\ windows = <<>>
        /\ storeDown = FALSE
        /\ areas = FreshAreas
        /\ returned = Called("none", JsUndefined, Returns(JsUndefined), 0)

NextAgent ==
    \/ AgentLoaded
    \/ \E position \in 0..MAX_MRU_STACK_SIZE : AgentUpdate(position)
    \/ AgentVisible
    \/ AgentAnswered
    \/ AgentQueryFailed
    \/ ExtensionReloaded
    \/ \E title \in PageTitles : PageSetsTitle(title)
    \/ Observe
    \/ WindowFocused
    \/ AgentStorageChanged
    \/ Settings

\* one content script, its page, the popup and an idle worker
SpecAgent == InitAgent /\ [][NextAgent]_vars

\* handlers run one after another in a worker loaded after a browser start
SpecBoot == InitBoot /\ [][NextSeq]_vars

\* handlers run one after another, and tabs report every status
NextUpd == NextSeq \/ \E t \in Tabs : TabLoading(t)

SpecUpd == Init /\ [][NextUpd]_vars

\* handlers run one after another, and the focus moves between two windows
NextFocus == NextSeq \/ (Idle /\ \E t \in Tabs : FocusOther(t))

SpecFocus == Init /\ [][NextFocus]_vars

\* ---- the functions of storage.ts over a store that holds any value ----

workerVars == <<mruStack, previousMruStack, stored, breadcrumbCount, tabs, active,
                tasks, log, response, recent, lastRestored, event, budget, agent,
                agents, windows>>

\* values found under the keys: absent, null, numbers, the string "4",
\* booleans, arrays
CountValues ==
    {JsUndefined, JsNull, JsNumber(0), JsNumber(1), JsNumber(2), JsNumber(4),
     JsString(<<52>>)}
DebugValues == {JsUndefined, JsNull, JsBoolean(TRUE), JsBoolean(FALSE)}
StackValues ==
    {JsUndefined, JsNull, JsNumber(7), JsString(<<51>>), JsArray(<<>>),
     JsArray(<<3, 1>>)}
ValuesOf(key) ==
    IF key = "breadcrumbCount" THEN CountValues
    ELSE IF key = "debugLoggingEnabled" THEN DebugValues
    ELSE StackValues

\* a getter was called and came back with result
Got(call, result) ==
    /\ returned' = Called(call, JsUndefined, result, 1 - returned.serial)
    /\ UNCHANGED <<areas, storeDown, workerVars>>

\* a setter was called with arg and came back with result
Wrote(call, arg, result) ==
    /\ returned' = Called(call, arg, [value |-> JsUndefined, thrown |-> result.thrown],
                          1 - returned.serial)
    /\ areas' = result.areas
    /\ UNCHANGED <<storeDown, workerVars>>

CallGetBreadcrumbCount ==
    Got("getBreadcrumbCount", getBreadcrumbCount(Read("breadcrumbCount")))
CallSetBreadcrumbCount(count) ==
    Wrote("setBreadcrumbCount", count, setBreadcrumbCount(count))
CallGetDebugEnabled ==
    Got("getDebugEnabled", getDebugEnabled(Read("debugLoggingEnabled")))
CallSetDebugEnabled(enabled) ==
    Wrote("setDebugEnabled", enabled, setDebugEnabled(enabled))
CallGetMruStack == Got("getMruStack", getMruStack(Read("mruStack")))
CallSetMruStack(stack) == Wrote("setMruStack", stack, setMruStack(stack))

\* something else writes the key: another version of the extension, the
\* browser's sync from another profile, the developer tools
StoreWritten(key, value) ==
    /\ areas[key] # value
    /\ areas' = [areas EXCEPT ![key] = value]
    /\ UNCHANGED <<storeDown, returned, workerVars>>

\* the browser's storage starts or stops rejecting calls
StoreToggled ==
    /\ storeDown' = ~storeDown
    /\ UNCHANGED <<areas, returned, workerVars>>

InitStorage ==
    /\ mruStack = <<>>
    /\ previousMruStack = <<>>
    /\ stored = <<>>
    /\ breadcrumbCount = DEFAULT_BREADCRUMB_COUNT
    /\ tabs = [t \in Tabs |-> IF t % 2 = 1 THEN "https" ELSE "http"]
    /\ active = 0
    /\ tasks = EmptyBag
    /\ log = {}
    /\ response = [to |-> 0, success |-> FALSE, position |-> 0]
    /\ recent = <<>>
    /\ lastRestored = None
    /\ event = FirstEvent
    /\ budget = 0 - 1
    /\ agent = AgentStart(<<5>>)
    /\ agents = <<>>
    /\ windows = <<>>
    /\ storeDown = FALSE
    /\ areas = FreshAreas
    /\ returned = Called("none", JsUndefined, Returns(JsUndefined), 0)

NextStorage ==
    \/ CallGetBreadcrumbCount
    \/ \E count \in {JsNumber(1), JsNumber(4)} : CallSetBreadcrumbCount(count)
    \/ CallGetDebugEnabled
    \/ \E enabled \in {JsBoolean(TRUE), JsBoolean(FALSE)} : CallSetDebugEnabled(enabled)
    \/ CallGetMruStack
    \/ \E stack \in {JsArray(<<>>), JsArray(<<3, 1>>), JsArray(<<2>>)} :
           CallSetMruStack(stack)
    \/ \E key \in DOMAIN FreshAreas : \E value \in ValuesOf(key) :
           StoreWritten(key, value)
    \/ StoreToggled

SpecStorage == InitStorage /\ [][NextStorage]_vars

\* first load after installation; the local store may reject every call
InitStoreFails == Loaded(<<>>, 0 - 1, 1) /\ storeDown \in BOOLEAN

\* handlers run one after another over a store that may be down
SpecStoreFails == InitStoreFails /\ [][NextSeq]_vars

\* ---- properties ----

NoDuplicates(s) == \A i, j \in 1..Len(s) : i # j => s[i] # s[j]

\* C1: whatever way the handlers of tab events and recovery runs interleave,
\* the in-memory MRU stack never holds a tab id twice.
C1_NoDuplicateTabIds == NoDuplicates(mruStack)

\* C1 witness: a tab that was already in a stack of two or more was promoted
\* again while another handler or recovery run was still suspended.
C1_Witness ==
    /\ Len(mruStack) >= 2
    /\ previousMruStack # mruStack
    /\ Includes(previousMruStack, mruStack[1])
    /\ NumInFlight = 2

\* C2 as stated: the stack is never longer than the display mode.
C2_LengthAtMostDisplayMode == Len(mruStack) <= breadcrumbCount

\* C2 as amended: in display mode 1 and in display mode 4 alike the stack is
\* never longer than MAX_MRU_STACK_SIZE.
C2_LengthAtMostMaxInEitherMode ==
    /\ breadcrumbCount \in {1, 4}
    /\ Len(mruStack) <= MAX_MRU_STACK_SIZE

\* C2 witness: in display mode 1 an activation pushed a tab out of a full
\* stack, which still holds MAX_MRU_STACK_SIZE ids.
C2_Witness ==
    /\ breadcrumbCount = 1
    /\ Len(mruStack) = MAX_MRU_STACK_SIZE
    /\ Len(previousMruStack) = MAX_MRU_STACK_SIZE
    /\ Len(Difference(previousMruStack, mruStack)) = 1

\* every id of sub is in s, and the ids of sub stand in the order they have in s
OrderKept(sub, s) ==
    /\ Members(sub) \subseteq Members(s)
    /\ \A i, j \in 1..Len(sub) : i < j => IndexOf(s, sub[i]) < IndexOf(s, sub[j])

\* the handler of the last dispatched event has run to its end on a stack
\* it changed
Handled(kind) == Idle /\ event.kind = kind /\ event.before # None

PositionsSent(stack) == {UpdatePosition(stack[i], i) : i \in 1..Len(stack)}

\* C3: handlers running one after another, an activation of tab t leaves t
\* at the front followed by the earlier members in their order, cut to
\* MAX_MRU_STACK_SIZE ids; every member is sent its 1-based position and a
\* member pushed out over capacity is sent position 0.
C3_ActivationEvictsOldest ==
    Handled("activated") =>
        LET before == event.before
            others == Members(before) \ {event.tab}
            rest == Tail(mruStack)
        IN  /\ mruStack[1] = event.tab
            /\ OrderKept(rest, before)
            /\ Members(rest) \subseteq others
            /\ Len(rest) = IF Cardinality(others) < MAX_MRU_STACK_SIZE
                           THEN Cardinality(others)
                           ELSE MAX_MRU_STACK_SIZE - 1
            /\ \A x \in others \ Members(rest) :
                   /\ \A y \in Members(rest) : IndexOf(before, y) < IndexOf(before, x)
                   /\ UpdatePosition(x, 0) \in log
            /\ PositionsSent(mruStack) \subseteq log

\* C3 witness: tabs 1 to 5 were activated in that order from an empty stack;
\* the stack holds the last four and tab 1 was sent position 0.
C3_Witness ==
    /\ Handled("activated")
    /\ recent = <<5, 4, 3, 2, 1>>
    /\ event.before = <<4, 3, 2, 1>>
    /\ mruStack = <<5, 4, 3, 2>>
    /\ UpdatePosition(1, 0) \in log

C6_SecondActivationChangesNothing ==
    Handled("activated") /\ event.again =>
        /\ mruStack = event.before
        /\ \A m \in log : m.position # 0

\* C6 witness: a tab was activated twice in succession on a full stack.
C6_Witness ==
    /\ Handled("activated") /\ event.again
    /\ Len(mruStack) = MAX_MRU_STACK_SIZE
    /\ PositionsSent(mruStack) \subseteq log

\* C9: onRemoved(t) takes t out of the stack and keeps the order of the
\* other ids, persists the stack, sends each remaining member its 1-based
\* position and sends nothing else, so nothing to t.
C9_RemovalKeepsOrder ==
    Handled("removed") =>
        /\ Members(mruStack) = Members(event.before) \ {event.tab}
        /\ OrderKept(mruStack, event.before)
        /\ stored = mruStack
        /\ log = PositionsSent(mruStack)
        /\ \A m \in log : m.to # event.tab

\* C9 witness: tab 1 was removed from the stack 3, 1, 2, 5.
C9_Witness ==
    /\ Handled("removed")
    /\ event.tab = 1
    /\ event.before = <<3, 1, 2, 5>>
    /\ mruStack = <<3, 2, 5>>
    /\ log = {UpdatePosition(3, 1), UpdatePosition(2, 2), UpdatePosition(5, 3)}

\* C5: the answer to GET_MY_POSITION from tab t reports success and the
\* 1-based place of t in the stack, or 0 when t is not in it; answering
\* changes neither the stack nor the persisted stack and sends no
\* UPDATE_POSITION.
C5_PositionQueryIsPureLookup ==
    [][response' # response =>
        /\ response'.success
        /\ \/ /\ response'.position \in 1..Len(mruStack)
              /\ mruStack[response'.position] = response'.to
           \/ /\ response'.position = 0
              /\ response'.to \notin Members(mruStack)
        /\ mruStack' = mruStack
        /\ stored' = stored
        /\ log' = log]_vars

\* C5 witness: the tab at the back of a full stack was answered position 4
\* after its position had been broadcast.
C5_Witness ==
    /\ response.success
    /\ response.position = MAX_MRU_STACK_SIZE
    /\ Len(mruStack) = MAX_MRU_STACK_SIZE
    /\ mruStack[MAX_MRU_STACK_SIZE] = response.to
    /\ UpdatePosition(response.to, MAX_MRU_STACK_SIZE) \in log

Copies(b, k) == IF k \in BagToSet(b) THEN b[k] ELSE 0

\* C7: when updateMRU, called for an activation, finds the tab closed or on
\* a URL that is missing or neither http nor https, the step returning from
\* the lookup changes neither the stack nor the persisted stack and sends
\* no message.
C7_UntrackableActivationIgnored ==
    [][\A k \in InFlight :
        (/\ k.pc = "lookup" /\ k.cont = "none"
         /\ tabs[k.tab] \in {"closed", "chrome", "nourl"}
         /\ Copies(tasks', k) < Copies(tasks, k)) =>
            /\ mruStack' = mruStack
            /\ stored' = stored
            /\ log' = log]_vars

\* C7 witness: a tab was closed between its activation and the lookup, and
\* updateMRU returned early with a non-empty stack in place.
C7_Witness ==
    /\ event.skipped # 0
    /\ tabs[event.skipped] = "closed"
    /\ mruStack # <<>>
    /\ stored = mruStack
    /\ log = {}

\* C8 as stated: once the handlers have run, every id in the stack that
\* belongs to an open tab belongs to one whose URL is http or https.
C8_StackedTabsTrackable ==
    Idle => \A i \in 1..Len(mruStack) :
                IsOpen(mruStack[i]) => tabs[mruStack[i]] \in {"http", "https"}

\* the persisted stack S, cleaned: the open http/https tabs of S in the
\* order of S, the first MAX_MRU_STACK_SIZE of them
Cleaned(stack, S) ==
    LET valid == {t \in Members(S) : tabs[t] \in {"http", "https"}}
    IN  /\ OrderKept(stack, S)
        /\ Members(stack) \subseteq valid
        /\ Len(stack) <= MAX_MRU_STACK_SIZE
        /\ \A x \in valid \ Members(stack) :
               /\ Len(stack) = MAX_MRU_STACK_SIZE
               /\ \A y \in Members(stack) : IndexOf(S, y) < IndexOf(S, x)

C11_RecoveryTakesOneBranch ==
    event.kind = "init" =>
        /\ \A k \in InFlight : k.pc = "squery1" =>
               IF event.adopted # None
               THEN mruStack = event.adopted /\ log = PositionsSent(event.adopted)
               ELSE log = {UpdatePosition(t, 0) : t \in {u \in Tabs : IsOpen(u)}}
        /\ (Idle /\ event.adopted # None) =>
               /\ PositionsSent(event.adopted) \subseteq log
               /\ \A m \in log : m.position = 0 =>
                      /\ event.before = event.adopted
                      /\ m.to \in Members(event.before) \ Members(mruStack)

\* C11 witness: the restore adopted 3, 1, 2, 5 and broadcast it, then the
\* seeding activation of tab 4 pushed tab 5 out, which was sent position 0.
C11_Witness ==
    /\ Idle /\ event.kind = "init"
    /\ event.adopted = <<3, 1, 2, 5>>
    /\ mruStack = <<4, 3, 1, 2>>
    /\ UpdatePosition(5, 0) \in log
    /\ UpdatePosition(4, 1) \in log

SecondTabActivated ==
    /\ Handled("activated")
    /\ breadcrumbCount = 1
    /\ Len(event.before) = 1
    /\ event.before[1] # event.tab

\* C13 as stated: in display mode 1, activating a second tab leaves only that
\* tab in the stack; it is sent position 1 and the first tab position 0.
C13_ModeOneKeepsOneTab ==
    SecondTabActivated =>
        /\ mruStack = <<event.tab>>
        /\ UpdatePosition(event.tab, 1) \in log
        /\ UpdatePosition(event.before[1], 0) \in log

\* C13 as amended: in display mode 1, activating a second tab leaves both
\* tabs in the stack, the second in front; the second is sent position 1,
\* the first position 2, and no position 0 is sent.
C13_ModeOneKeepsBothTabs ==
    SecondTabActivated =>
        /\ mruStack = <<event.tab, event.before[1]>>
        /\ log = {UpdatePosition(event.tab, 1), UpdatePosition(event.before[1], 2)}

\* C13 witness: tab 1 and then tab 2 were activated from the empty stack in
\* display mode 1.
C13_Witness ==
    /\ SecondTabActivated
    /\ event.before = <<1>>
    /\ recent = <<2, 1>>
    /\ mruStack = <<2, 1>>

\* C20 as stated: whenever no handler and no recovery run is in flight, the
\* stack in the local store equals the in-memory stack.
C20_StoredEqualsStackWhenIdle == Idle => stored = mruStack

\* the display-mode filter of the agent: position p is shown in mode n
PassesFilter(p, n) == p \in 1..MAX_MRU_STACK_SIZE /\ (n = 4 \/ p = 1)

\* an update to position p that passed the filter took the agent from
\* NoMarker to Marked(p), an update to position 0 was handled next, and the
\* page did not set the title in between
MarkedThenCleared ==
    /\ agent.marked # None
    /\ agent.last.kind = "update"
    /\ agent.last.arg = 0

\* C14: an agent in NoMarker with title T that handles an update to a position
\* p passing the display-mode filter and then an update to position 0, with
\* no title change by the page in between, shows exactly T again and is in
\* NoMarker.
C14_MarkThenClearRestoresTitle ==
    MarkedThenCleared =>
        /\ agent.title = agent.marked
        /\ agent.currentPosition = 0

\* C14 witness: in display mode 4 the agent, showing the title <<6>> the page
\* had set, was marked and then took the update to position 0 while it held
\* position 3.
C14_Witness ==
    /\ MarkedThenCleared
    /\ agent.marked = <<6>>
    /\ agent.last.position = 3
    /\ agent.breadcrumbCount = 4
    /\ ~agent.mutations

\* the title starts with the indicator of some position
StartsWithIndicator(title) ==
    \E q \in 1..MAX_MRU_STACK_SIZE : startsWith(title, INDICATORS[q])

\* C15: when the page sets a title S that starts with no indicator while the
\* agent is in Marked(p), the run of the title observer leaves the title
\* indicator(p) followed by S, S as the remembered original title, and the
\* agent in Marked(p); a run of the observer on a title that already starts
\* with indicator(p) changes neither the title nor the remembered original.
C15_ObserverReappliesIndicator ==
    [][(agent.mutations /\ agent.observing /\ agent.currentPosition > 0
            /\ agent' # agent) =>
        /\ agent'.currentPosition = agent.currentPosition
        /\ (agent.last.kind = "page" /\ ~StartsWithIndicator(agent.title)) =>
                /\ agent'.title = INDICATORS[agent.currentPosition] \o agent.title
                /\ agent'.originalTitle = agent.title
        /\ startsWith(agent.title, INDICATORS[agent.currentPosition]) =>
                /\ agent'.title = agent.title
                /\ agent'.originalTitle = agent.originalTitle]_vars

\* C15 witness: the agent held position 3 over the title <<5>>, the page
\* set the title <<6>>, and the observer has run.
C15_Witness ==
    /\ agent.last = [kind |-> "page", arg |-> 0, position |-> 3]
    /\ agent.pageTitle = <<6>>
    /\ agent.observing /\ ~agent.mutations
    /\ agent.title = INDICATORS[3] \o <<6>>
    /\ agent.originalTitle = <<6>>
    /\ agent.currentPosition = 3

\* the live agent has just processed an UPDATE_POSITION whose position is 0
\* or fails the filter of the display mode the agent holds
UpdateFiltered ==
    /\ agent.last.kind = "update"
    /\ ~agent.extensionContextInvalidated
    /\ ~PassesFilter(agent.last.arg, agent.breadcrumbCount)

\* C16: the applied position is always 0 or within 1..N for the display mode
\* N the agent holds (so 0 or 1 in mode 1), in particular after every
\* UPDATE_POSITION, query response and mode-change notification; and a
\* processed update to position 0 or to a position failing the filter leaves
\* the agent in NoMarker, with the original title written back if a marker
\* was shown.
C16_PositionRespectsDisplayMode ==
    /\ agent.breadcrumbCount \in {1, 4}
    /\ agent.currentPosition \in 0..agent.breadcrumbCount
    /\ UpdateFiltered =>
           /\ agent.currentPosition = 0
           /\ agent.last.position > 0 => agent.title = agent.originalTitle

\* C16 witness: in display mode 1 the agent showed indicator 1 over the
\* title <<6>> and processed an update to position 3.
C16_Witness ==
    /\ UpdateFiltered
    /\ agent.breadcrumbCount = 1
    /\ agent.last = [kind |-> "update", arg |-> 3, position |-> 1]
    /\ agent.title = <<6>>

\* the handler that has just completed found the channel dead (the runtime
\* check of a visibility change, or the rejected position query) while the
\* agent was in Marked(p)
DetectedWhileMarked ==
    /\ agent.extensionContextInvalidated
    /\ \/ agent.last.kind = "visible" /\ agent.last.arg = 0
       \/ agent.last.kind = "failed"
    /\ agent.last.position > 0

\* C17 as stated: once the handler that detected the dead channel in
\* Marked(p) has completed, the agent is marked dead, its title observer is
\* stopped, the title is the original title and the applied position is 0.
C17_DeathCleansUp ==
    DetectedWhileMarked =>
        /\ ~agent.observing
        /\ agent.title = agent.originalTitle
        /\ agent.currentPosition = 0

\* C18: once the dead flag is set it is never cleared; from then on an
\* incoming UPDATE_POSITION changes neither the applied position nor the
\* title, and no step sends a position query (a visibility change included).
C18_DeathIsTerminal ==
    [][agent.extensionContextInvalidated =>
        /\ agent'.extensionContextInvalidated
        /\ (agent'.last.kind = "update" /\ agent'.last # agent.last) =>
                /\ agent'.currentPosition = agent.currentPosition
                /\ agent'.title = agent.title
        /\ agent'.verifying <= agent.verifying]_vars

\* C18 witness: a dead agent in display mode 4 without a marker was sent
\* position 2 and still shows its plain title.
C18_Witness ==
    /\ agent.extensionContextInvalidated
    /\ agent.breadcrumbCount = 4
    /\ agent.last = [kind |-> "update", arg |-> 2, position |-> 0]
    /\ agent.currentPosition = 0
    /\ agent.title = <<6>>

\* the 1-based place of the agent's tab in the worker's stack, 0 if the tab
\* is not in it
AuthoritativePosition ==
    IF \E i \in 1..Len(mruStack) : mruStack[i] = AgentTab
    THEN CHOOSE i \in 1..Len(mruStack) : mruStack[i] = AgentTab
    ELSE 0

\* C19: when the tab of an agent whose channel is alive becomes visible the
\* agent sends a position query; when the response is processed, the stack
\* being the same as when the query was answered, the applied position is the
\* authoritative position if that passes the filter of the agent's display
\* mode and 0 otherwise, whatever position the agent held before.
C19_VisibleAgentHealsPosition ==
    [][/\ (/\ agent'.last.kind = "visible" /\ agent'.last # agent.last
            /\ ~agent.extensionContextInvalidated /\ agent.runtime) =>
               agent'.verifying = agent.verifying + 1
       /\ (agent'.last.kind = "answer" /\ agent'.verifying < agent.verifying) =>
               agent'.currentPosition =
                   IF PassesFilter(AuthoritativePosition, agent'.breadcrumbCount)
                   THEN AuthoritativePosition
                   ELSE 0]_vars

\* C19 witness: the agent's tab is third in the stack, the agent showed
\* indicator 1 in display mode 4, and the processed response left it at
\* position 3.
C19_Witness ==
    /\ AuthoritativePosition = 3
    /\ agent.breadcrumbCount = 4
    /\ agent.last = [kind |-> "answer", arg |-> 3, position |-> 1]
    /\ agent.currentPosition = 3
    /\ agent.verifying = 0

\* the messages a broadcast of stack with the fallen-off tabs of before sends
BroadcastOf(before, stack) ==
    PositionsSent(stack)
        \cup {UpdatePosition(x, 0) : x \in Members(before) \ Members(stack)}

\* C21: an activation or removal handler whose store write is rejected still
\* runs to its end: the in-memory stack holds the mutated value and the
\* handler sends every member its position and every fallen-off tab
\* position 0, the same messages as with a store that takes the write.
C21_FailedWriteDoesNotStopHandler ==
    /\ Handled("activated") =>
           /\ mruStack[1] = event.tab
           /\ Tail(mruStack) =
                  Slice(FilterOut(event.before, event.tab), MAX_MRU_STACK_SIZE - 1)
           /\ log = BroadcastOf(event.before, mruStack)
    /\ Handled("removed") =>
           /\ mruStack = FilterOut(event.before, event.tab)
           /\ log = PositionsSent(mruStack)

\* C21 witness: with the store down, tab 5 was activated on the full stack
\* 4, 3, 2, 1; nothing was ever stored, the stack is 5, 4, 3, 2 and tab 1 was
\* sent position 0.
C21_Witness ==
    /\ storeDown
    /\ Handled("activated")
    /\ event.before = <<4, 3, 2, 1>>
    /\ mruStack = <<5, 4, 3, 2>>
    /\ stored = <<>>
    /\ UpdatePosition(1, 0) \in log

\* C22: when the delivery of one message of a broadcast fails (no agent is
\* loaded in the recipient) the handler still runs to its end and the
\* broadcast goes on: every member of the stack and every fallen-off tab is
\* sent its message, and each message is sent once, the failed one included.
C22_FailedDeliveryDoesNotStopBroadcast ==
    /\ Handled("activated") =>
           /\ log = BroadcastOf(event.before, mruStack)
           /\ event.sends = Cardinality(log)
           /\ event.failed \subseteq log
    /\ Handled("removed") =>
           /\ log = PositionsSent(mruStack)
           /\ event.sends = Len(mruStack)
           /\ event.failed \subseteq log

\* C22 witness: tab 1, third in the stack, shows an internal page; the
\* position message to it failed, and after it tab 3 was sent position 4 and
\* the fallen-off tab 4 position 0.
C22_Witness ==
    /\ Handled("activated")
    /\ mruStack = <<5, 2, 1, 3>>
    /\ event.failed = {UpdatePosition(1, 3)}
    /\ UpdatePosition(3, 4) \in log
    /\ UpdatePosition(4, 0) \in log
    /\ event.sends = 5

\* C23: a tab-updated event is handled as an activation exactly when the tab
\* is the active tab and the status is "complete"; an update of a tab that
\* is not active, or with another status, changes neither the in-memory
\* stack nor the persisted stack, starts no handler and sends no message.
C23_OnlyActiveCompleteUpdateActivates ==
    [][\A t \in Tabs :
        LET completed == tabs[t] # "closed" /\ tabs'[t] # "closed" /\ tabs'[t] # tabs[t]
            loading == event' = Event("loading", t) /\ event' # event
            activation == Task("lookup", t, "none")
        IN  /\ (completed /\ active = t) =>
                   Copies(tasks', activation) = Copies(tasks, activation) + 1
            /\ ((completed /\ active # t) \/ loading) =>
                   /\ mruStack' = mruStack
                   /\ previousMruStack' = previousMruStack
                   /\ stored' = stored
                   /\ log' = log
                   /\ BagCardinality(tasks') = BagCardinality(tasks)]_vars

\* C23 witness: the active tab, front of a full stack, reported status
\* "loading" while the worker was idle, and nothing was sent.
C23_Witness ==
    /\ event = Event("loading", active)
    /\ Idle
    /\ Len(mruStack) = MAX_MRU_STACK_SIZE
    /\ mruStack[1] = active
    /\ log # {}

\* C24: the handler of a focus change to a real window ends having sent
\* every member of the stack its position, whether the window's active tab
\* was promoted, was not trackable or there was none; a focus change to
\* WINDOW_ID_NONE starts no handler, so the only focus events that leave a
\* trace are those of real windows.
C24_FocusRebroadcastsStack ==
    /\ event.kind = "focus" => event.tab # WINDOW_ID_NONE
    /\ (Idle /\ event.kind = "focus") =>
           /\ PositionsSent(mruStack) \subseteq log
           /\ \A m \in log : m.position # 0 => m \in PositionsSent(mruStack)
           /\ event.before = None => log = PositionsSent(mruStack)

\* C24 witness: the focus moved to a window whose active tab 4 was not in
\* the full stack 3, 1, 2, 5; the handler promoted it, and all four members
\* were sent their positions and tab 5 position 0.
C24_Witness ==
    /\ Idle
    /\ event.kind = "focus"
    /\ event.before = <<3, 1, 2, 5>>
    /\ mruStack = <<4, 3, 1, 2>>
    /\ log = BroadcastOf(event.before, mruStack)

\* a call of the storage.ts function `call` came back in this step
Returned(call) == returned'.serial # returned.serial /\ returned'.call = call

\* C25: getBreadcrumbCount returns the stored value when it is exactly the
\* number 1 or the number 4, and 1 for every other stored value (absent,
\* null, another number, the string "4") and when the read of the synced
\* store fails; it never throws and writes nothing.
C25_BreadcrumbCountOneOrFourElseDefault ==
    [][Returned("getBreadcrumbCount") =>
           /\ ~returned'.thrown
           /\ areas' = areas
           /\ returned'.value =
                  IF ~storeDown /\ areas.breadcrumbCount \in {JsNumber(1), JsNumber(4)}
                  THEN areas.breadcrumbCount
                  ELSE JsNumber(1)]_vars

\* the string "4" is stored and the default came back
C25_Witness ==
    /\ returned.call = "getBreadcrumbCount"
    /\ ~storeDown
    /\ areas.breadcrumbCount = JsString(<<52>>)
    /\ returned.value = JsNumber(1)
    /\ ~returned.thrown

\* a setter came back in this step: it threw exactly when the store rejected
\* the write, and otherwise the key holds the value it was given and the
\* other keys what they held
SetterWrote(call, key) ==
    Returned(call) =>
        /\ returned'.thrown = storeDown
        /\ ~storeDown => areas' = [areas EXCEPT ![key] = returned'.arg]

\* C26: the getters never fail and the setters never hide a failure:
\* getMruStack returns the stored value when it is an array and [] for a
\* non-array value or a read error; getDebugEnabled returns false when the
\* key is unset or the read fails; setBreadcrumbCount, setDebugEnabled and
\* setMruStack write exactly the given value under their key and propagate
\* a write failure.
C26_GettersNeverFailSettersNeverHide ==
    [][/\ Returned("getMruStack") =>
              /\ ~returned'.thrown
              /\ areas' = areas
              /\ returned'.value =
                     IF ~storeDown /\ areas.mruStack.t = "array"
                     THEN areas.mruStack
                     ELSE JsArray(<<>>)
       /\ Returned("getDebugEnabled") =>
              /\ ~returned'.thrown
              /\ areas' = areas
              /\ (storeDown \/ areas.debugLoggingEnabled = JsUndefined) =>
                     returned'.value = JsBoolean(FALSE)
       /\ Returned("getBreadcrumbCount") => ~returned'.thrown
       /\ SetterWrote("setBreadcrumbCount", "breadcrumbCount")
       /\ SetterWrote("setDebugEnabled", "debugLoggingEnabled")
       /\ SetterWrote("setMruStack", "mruStack")]_vars

\* a number is stored under mruStack and getMruStack returned []
C26_Witness ==
    /\ returned.call = "getMruStack"
    /\ ~storeDown
    /\ areas.mruStack = JsNumber(7)
    /\ returned.value = JsArray(<<>>)
    /\ ~returned.thrown

\* C27: every position 1..MAX_MRU_STACK_SIZE (= 4) has a defined, non-empty
\* marker, and the markers of different positions are different.
C27_MarkersDefinedAndDistinct ==
    /\ MAX_MRU_STACK_SIZE = 4
    /\ \A p \in 1..MAX_MRU_STACK_SIZE :
           /\ p \in DOMAIN INDICATORS
           /\ Len(INDICATORS[p]) > 0
    /\ \A p, q \in 1..MAX_MRU_STACK_SIZE : p # q => INDICATORS[p] # INDICATORS[q]
    /\ agent.currentPosition \in 0..MAX_MRU_STACK_SIZE

\* the agent shows the marker of position 4, which is no other position's
C27_Witness ==
    /\ agent.currentPosition = MAX_MRU_STACK_SIZE
    /\ startsWith(agent.title, INDICATORS[4])
    /\ \A p \in 1..3 : ~startsWith(agent.title, INDICATORS[p])

\* C28: for any interleaving of two or more activation handlers, every tab
\* that was in the stack before some activation's mutation and is absent
\* after it is sent position 0, unless it is promoted back: once the
\* handlers have finished, no tab that can receive messages is still owed
\* its clear.
C28_EveryEvictedTabCleared ==
    Idle => \A x \in event.owed : ~Delivers(x)

JustSent(k) == k.pc = "bsent" /\ CopiesIn(k, tasks') > CopiesIn(k, tasks)

C30_MutationsDuringRecoveryKept ==
    Idle =>
        /\ \A x \in event.promoted : Delivers(x) => Includes(mruStack, x)
        /\ \A x \in event.removed : ~Includes(mruStack, x)

\* the handler of the event dispatched last has not yet resumed from its
\* store write
BeforeWriteReturned ==
    \E k \in InFlight : k.pc \in {"lookup", "removed", "persist", "rmpersist"}

\* C31: within one activation or removal handler the order is mutate, then
\* persist, then broadcast: a handler that has sent a position message has
\* done its in-memory mutation and has resumed from its store write, whether
\* the store took the write or not; and the mutation (remove, insert at
\* front, truncate; or remove) is one step, which sends nothing and leaves
\* the handler waiting for the store.
C31_MutateThenPersistThenBroadcast ==
    /\ [](event.kind \in {"activated", "updated", "removed"} /\ event.sends > 0
            => event.before # None /\ ~BeforeWriteReturned)
    /\ [][((\E k \in InFlight : k.pc \in {"lookup", "removed"}) /\ mruStack' # mruStack) =>
              \E k \in InFlight :
                  /\ k.pc \in {"lookup", "removed"}
                  /\ mruStack' =
                         IF k.pc = "removed"
                         THEN FilterOut(mruStack, k.tab)
                         ELSE Slice(Unshift(FilterOut(mruStack, k.tab), k.tab),
                                    MAX_MRU_STACK_SIZE)
                  /\ log' = log
                  /\ event'.sends = event.sends
                  /\ \E q \in BagToSet(tasks') :
                         /\ q.tab = k.tab
                         /\ q.pc = IF k.pc = "removed" THEN "rmpersist" ELSE "persist"]_vars

\* C31 witness: the store rejects writes; the handler activating tab 2 on the
\* stack 1 has mutated the stack, resumed from the rejected write and sent
\* tab 2 its position
C31_Witness ==
    /\ storeDown
    /\ event.kind = "activated" /\ event.tab = 2
    /\ event.before = <<1>>
    /\ mruStack = <<2, 1>>
    /\ stored = <<>>
    /\ event.sends = 1
    /\ \E k \in InFlight : k.pc = "bsent" /\ k.tab = 2

\* the position the content script of tab t shows when it has applied the
\* tab's position in stack under display mode count
Filtered(stack, t, count) ==
    LET position == IndexOf(stack, t) + 1
    IN  IF count = 4 \/ position = 1 THEN position ELSE 0

\* C32: with reliable in-order delivery, a fixed display mode, content
\* scripts that stay loaded and alive and handlers run one at a time, after
\* each activation, removal or focus handler completes the applied position
\* of every tab's content script equals the tab's position in the stack when
\* the display mode shows that position, and 0 otherwise.
C32_AgentsFollowStack ==
    (Idle /\ event.kind \in {"activated", "removed", "focus"}) =>
        \A t \in Tabs :
            Delivers(t) =>
                agents[t].currentPosition = Filtered(mruStack, t, breadcrumbCount)

\* C32 witness: in four-marker mode tab 5 was activated on the full stack;
\* tab 1 fell off and shows nothing, tabs 5, 4, 3, 2 show positions 1 to 4
C32_Witness ==
    /\ Idle /\ event.kind = "activated" /\ event.tab = 5
    /\ breadcrumbCount = 4
    /\ event.before = <<4, 3, 2, 1>>
    /\ mruStack = <<5, 4, 3, 2>>
    /\ agents[1].currentPosition = 0 /\ agents[1].title = <<5>>
    /\ agents[2].currentPosition = 4 /\ agents[2].title = INDICATORS[4] \o <<5>>
    /\ agents[5].currentPosition = 1

\* the title without the indicator it starts with, if it starts with one
OneIndicatorOff(title) ==
    IF StartsWithIndicator(title)
    THEN LET q == CHOOSE q \in 1..MAX_MRU_STACK_SIZE : startsWith(title, INDICATORS[q])
         IN  SubSeq(title, Len(INDICATORS[q]) + 1, Len(title))
    ELSE title

\* C33: when a live agent in Marked(p) whose title no longer starts with
\* indicator(p) handles an update repeating p, the title becomes indicator(p)
\* followed by the title it found with at most one leading indicator taken
\* off, and that stripped title becomes the remembered original; when the
\* title already starts with indicator(p) the repeated update changes neither
\* the title, the original nor the applied position.
C33_RepeatedUpdateReapplies ==
    [][\A p \in 1..MAX_MRU_STACK_SIZE :
          (/\ AgentUpdate(p)
           /\ agent.currentPosition = p
           /\ ~agent.extensionContextInvalidated) =>
              /\ agent'.currentPosition = p
              /\ IF startsWith(agent.title, INDICATORS[p])
                 THEN /\ agent'.title = agent.title
                      /\ agent'.originalTitle = agent.originalTitle
                 ELSE /\ agent'.title = INDICATORS[p] \o OneIndicatorOff(agent.title)
                      /\ agent'.originalTitle = OneIndicatorOff(agent.title)]_vars

\* C33 witness: before its observer was connected the agent showed
\* indicator 1, the page then set a title starting with indicator 2, and the
\* update repeating position 1 has put indicator 1 in place of indicator 2
C33_Witness ==
    /\ agent.last = [kind |-> "update", arg |-> 1, position |-> 1]
    /\ agent.pageTitle = INDICATORS[2] \o <<5>>
    /\ ~agent.observing
    /\ ~agent.extensionContextInvalidated
    /\ agent.currentPosition = 1
    /\ agent.originalTitle = <<5>>
    /\ agent.title = INDICATORS[1] \o <<5>>

\* C34: indicators never accumulate: when a live agent in NoMarker with title
\* T handles a run of updates and nothing else sets the title, then after an
\* update to a position p that passes the display-mode filter the title is
\* exactly indicator(p) followed by T and the agent holds p, and after an
\* update to position 0 the title is exactly T again.
C34_IndicatorsNeverAccumulate ==
    agent.chain # None =>
        /\ agent.last.kind = "update"
        /\ PassesFilter(agent.last.arg, agent.breadcrumbCount) =>
               /\ agent.currentPosition = agent.last.arg
               /\ agent.title = INDICATORS[agent.last.arg] \o agent.chain
        /\ agent.last.arg = 0 =>
               /\ agent.currentPosition = 0
               /\ agent.title = agent.chain

\* C34 witness: the agent found the page's title, which itself starts with
\* indicator 2, was taken to position 3 and from there to position 2
C34_Witness ==
    /\ agent.chain = INDICATORS[2] \o <<5>>
    /\ agent.last = [kind |-> "update", arg |-> 2, position |-> 3]
    /\ agent.currentPosition = 2
    /\ agent.title = INDICATORS[2] \o INDICATORS[2] \o <<5>>
    /\ agent.originalTitle = INDICATORS[2] \o <<5>>

\* the tab is open and shows a page the worker tracks
TrackableTab(t) == t # 0 /\ IsOpen(t) /\ tabs[t] \in {"http", "https"}

\* the tab a recovery run is to put in front: the active tab of the window
\* focused last when trackable, else the first trackable active tab of the
\* other windows, else 0
Chosen ==
    IF TrackableTab(active) THEN active
    ELSE IF \E i \in 1..Len(windows) : TrackableTab(windows[i])
    THEN windows[CHOOSE i \in 1..Len(windows) :
                    /\ TrackableTab(windows[i])
                    /\ \A j \in 1..(i - 1) : ~TrackableTab(windows[j])]
    ELSE 0

\* C35: once a recovery run has completed with no other event in between,
\* the chosen tab (the active tab of the last-focused window when trackable,
\* otherwise the first trackable active tab of any window), if there is
\* one, is element 0 of the stack, whether the restore adopted a stack or
\* not; with no trackable active tab the run changes the stack only where
\* its restore adopts one.
C35_RecoverySeedsActiveTab ==
    /\ []((Idle /\ event.kind = "init" /\ Chosen # 0) =>
              Len(mruStack) > 0 /\ mruStack[1] = Chosen)
    /\ [][(~Idle /\ event.kind = "init" /\ mruStack' # mruStack) =>
              \/ /\ \E k \in InFlight : k.pc = "rget"
                 /\ mruStack' = event'.adopted
              \/ /\ Chosen # 0
                 /\ \E k \in InFlight : k.pc = "lookup" /\ k.tab = Chosen
                 /\ mruStack'[1] = Chosen]_vars

\* C35 witness: the restore adopted 3, 5 of the saved 3, 1, 2, 5; the active
\* tab of the window focused last shows a browser page, the other windows
\* have tabs 2 (no URL) and 4 active, and tab 4 was put in front
C35_Witness ==
    /\ Idle /\ event.kind = "init"
    /\ event.adopted = <<3, 5>>
    /\ active = 1 /\ tabs[1] = "chrome"
    /\ windows = <<2, 4>> /\ tabs[2] = "nourl"
    /\ mruStack = <<4, 3, 5>>
    /\ stored = <<4, 3, 5>>

\* the display mode was changed last, the worker is idle and every content
\* script has handled the change
ModeSettled ==
    /\ Idle /\ event.kind = "mode"
    /\ \A t \in Tabs : Delivers(t) => agents[t].notified = breadcrumbCount

\* after the switch to four markers every tab at position 2..4 shows its marker
C36_SwitchToFourShows ==
    (ModeSettled /\ breadcrumbCount = 4) =>
        \A t \in Tabs :
            LET position == IndexOf(mruStack, t) + 1
            IN  (Delivers(t) /\ position \in 2..4) =>
                    /\ agents[t].currentPosition = position
                    /\ startsWith(agents[t].title, INDICATORS[position])

\* after the switch to one marker only the tab at position 1 shows a marker
C36_SwitchToOneHides ==
    (ModeSettled /\ breadcrumbCount = 1) =>
        \A t \in Tabs :
            Delivers(t) =>
                IF IndexOf(mruStack, t) = 0
                THEN /\ agents[t].currentPosition = 1
                     /\ startsWith(agents[t].title, INDICATORS[1])
                ELSE /\ agents[t].currentPosition = 0
                     /\ agents[t].title = agents[t].originalTitle

\* C36: after the display mode is switched from 1 to 4 and all live agents
\* have observed the change, every tab at position 2..4 of the stack shows
\* the marker of its position with no further activation, removal or focus
\* event; after a switch from 4 to 1 every agent that showed position 2..4
\* shows no marker and the agent at position 1 keeps its marker.
C36_ModeSwitchTakesEffect == C36_SwitchToFourShows /\ C36_SwitchToOneHides

\* a loop of broadcastPositions sent a message in this step and suspended as k
BroadcastSent(k) ==
    k.pc \in {"bsent", "csent"} /\ CopiesIn(k, tasks') > CopiesIn(k, tasks)

\* C37: at the moment an UPDATE_POSITION with position p >= 1 is sent to tab
\* t, t is element p - 1 of the in-memory stack and the mruStack field of the
\* message equals the in-memory stack; every position-0 message of an
\* activation's broadcast carries the in-memory stack of the moment it is
\* sent.
C37_MessageCarriesLiveStack ==
    [][\A k \in BagToSet(tasks') :
           BroadcastSent(k) =>
               /\ mruStack' = mruStack
               /\ k.snap = mruStack
               /\ k.pc = "bsent" =>
                      /\ k.idx < Len(mruStack)
                      /\ mruStack[k.idx + 1] = k.tab]_vars

\* C37 witness: the activation of tab 4 pushed tab 5 off the stack; before
\* its broadcast told tab 5 so, tab 1 was activated, and the position-0
\* message to tab 5 carries the stack with tab 1 in front
C37_Witness ==
    \E k \in InFlight :
        /\ k.pc = "csent" /\ k.tab = 5
        /\ k.own = <<4, 3, 1, 2>>
        /\ k.snap = <<1, 4, 3, 2>>
        /\ mruStack = <<1, 4, 3, 2>>

\* init has completed and the observer has consumed the queued records
AgentAtRest == agent.pc = "ready" /\ Settled

\* C38: whenever the agent's applied position is p >= 1 and no handler of
\* the agent or callback of the observer is pending, the document title is
\* indicator(p) followed by the remembered original title.
C38_TitleIsIndicatorPlusOriginal ==
    (agent.currentPosition >= 1 /\ AgentAtRest) =>
        agent.title = INDICATORS[agent.currentPosition] \o agent.originalTitle

\* at rest a marked title starts with the indicator of the applied position,
\* and is that indicator followed by the remembered original unless the
\* title the page set last itself starts with that indicator
C38_TitleStartsWithIndicator ==
    (agent.currentPosition >= 1 /\ AgentAtRest) =>
        /\ startsWith(agent.title, INDICATORS[agent.currentPosition])
        /\ ~startsWith(agent.pageTitle, INDICATORS[agent.currentPosition]) =>
               agent.title = INDICATORS[agent.currentPosition] \o agent.originalTitle

\* C39: the worker bounds its stack by MAX_MRU_STACK_SIZE = 4 whatever the
\* display mode: the stack never holds more than 4 ids, every position the
\* worker sends or answers is in 0..4, and in display mode 1 the worker
\* keeps and sends positions up to 4 while a content script that holds mode
\* 1 shows position 1 or nothing.
C39_StackBoundedByMaxOnly ==
    /\ MAX_MRU_STACK_SIZE = 4
    /\ breadcrumbCount \in {1, 4}
    /\ Len(mruStack) <= MAX_MRU_STACK_SIZE
    /\ \A m \in log : m.position \in 0..MAX_MRU_STACK_SIZE
    /\ response.position \in 0..MAX_MRU_STACK_SIZE
    /\ \A t \in Tabs :
           (Delivers(t) /\ agents[t].breadcrumbCount = 1) =>
               agents[t].currentPosition \in {0, 1}

\* C39 witness: in display mode 1 the stack holds four tabs; the tab at its
\* back was sent position 4, shows no marker, and was answered position 4
C39_Witness ==
    /\ breadcrumbCount = 1
    /\ Len(mruStack) = MAX_MRU_STACK_SIZE
    /\ \E t \in Tabs :
           /\ mruStack[MAX_MRU_STACK_SIZE] = t
           /\ UpdatePosition(t, MAX_MRU_STACK_SIZE) \in log
           /\ agents[t].breadcrumbCount = 1
           /\ agents[t].currentPosition = 0
           /\ response = [to |-> t, success |-> TRUE, position |-> MAX_MRU_STACK_SIZE]

====
